---------------------------- MODULE Spec2Model ----------------------------
(***************************************************************************)
(* Scout: the job-extraction pipeline of src/scout/tools/extractor.py.     *)
(*                                                                         *)
(* One invocation of extract_job_info is followed step by step: the empty  *)
(* input check, get_job_info_program (provider selection and the module    *)
(* level program cache), preprocessing, the extraction request, the        *)
(* rate-limit fallback to OpenAI, the normalisation of the result and the  *)
(* outer exception handler.  The LLM program is the environment: each      *)
(* request either returns a JobInfo-shaped result or raises an error.      *)
(*                                                                         *)
(* Strings the code inspects are sequences of one-character strings, so    *)
(* that lower(), upper(), strip() and the `in` substring test are computed *)
(* as Python computes them.  Text the code only emits (the literal part of *)
(* an error message) is kept as one piece of such a sequence.              *)
(***************************************************************************)
EXTENDS Integers, Sequences, FiniteSets, TLC

(***************************************************************************)
(* Bounds of the model.                                                    *)
(***************************************************************************)
\* Every text of up to this many pieces is an input of extract_job_info.
MaxTextLen == 1
\* Number of extract_job_info invocations followed in one behaviour.
MaxCalls == 2
\* Largest character budget, and longest text measured against it.
MaxBudget == 2
MaxBudgetTextLen == 3
\* Threads that call get_job_info_program at the same time.
NumThreads == 2

(***************************************************************************)
(* Python values.                                                          *)
(***************************************************************************)
None == [tag |-> "None"]

Str(s) == [tag |-> "str", s |-> s]

\* An attribute or a key that is not there.
Missing == [tag |-> "missing"]

Member(cls, m) == [tag |-> "enum", cls |-> cls, name |-> m.name, value |-> m.value]

\* bool(v) of a str, an Enum member or None.
Truthy(v) == IF v.tag = "str" THEN v.s # << >> ELSE v.tag # "None"

\* isinstance(v, str)
IsStr(v) == v.tag = "str"

\* str(v) as an f-string renders it.
Format(v) ==
  IF v.tag = "str" THEN v.s
  ELSE IF v.tag = "None" THEN <<"None">>
  ELSE <<v.cls, ".">> \o v.name

(***************************************************************************)
(* str.lower, str.upper, str.strip and the substring test.                 *)
(***************************************************************************)
UpperCase ==
  <<"A","B","C","D","E","F","G","H","I","J","K","L","M",
    "N","O","P","Q","R","S","T","U","V","W","X","Y","Z","<HTML>","<BODY>">>

LowerCase ==
  <<"a","b","c","d","e","f","g","h","i","j","k","l","m",
    "n","o","p","q","r","s","t","u","v","w","x","y","z","<html>","<body>">>

\* One character of c.lower() and of c.upper().
LowerChar(c) ==
  IF \E i \in DOMAIN UpperCase : UpperCase[i] = c
  THEN LowerCase[CHOOSE i \in DOMAIN UpperCase : UpperCase[i] = c]
  ELSE c

UpperChar(c) ==
  IF \E i \in DOMAIN LowerCase : LowerCase[i] = c
  THEN UpperCase[CHOOSE i \in DOMAIN LowerCase : LowerCase[i] = c]
  ELSE c

Lower == [s \in Seq(STRING) |-> [i \in DOMAIN s |-> LowerChar(s[i])]]

Upper == [s \in Seq(STRING) |-> [i \in DOMAIN s |-> UpperChar(s[i])]]

\* `sub in s`
Contains(s, sub) ==
  \E i \in 0..(Len(s) - Len(sub)) : SubSeq(s, i + 1, i + Len(sub)) = sub

IsSpace(c) == c \in {" ", "\n", "\t"}

\* s.strip(): from the first to the last piece that is not white space.
Strip ==
  [s \in Seq(STRING) |->
     IF \A i \in DOMAIN s : IsSpace(s[i]) THEN << >>
     ELSE SubSeq(s,
                 CHOOSE i \in DOMAIN s :
                   ~IsSpace(s[i]) /\ \A j \in 1..(i - 1) : IsSpace(s[j]),
                 CHOOSE i \in DOMAIN s :
                   ~IsSpace(s[i]) /\ \A j \in (i + 1)..Len(s) : IsSpace(s[j]))]

(***************************************************************************)
(* _sanitize_error_message, extractor.py lines 51-98 (fetcher.py 11-55 is  *)
(* the same function).  A secret is one piece: a run of characters of      *)
(* [a-zA-Z0-9._-] set off from the text around it, "<key20>" of 20 to 49   *)
(* characters, "<sk-key>" of 'sk-' and 30 to 46 more, "<key50>" of 50 or   *)
(* more.  No other run of the texts that occur is 20 characters long.      *)
(***************************************************************************)
Redacted == "***REDACTED***"

KeyPieces == {"<key20>", "<sk-key>", "<key50>"}

IsKey(c) == c \in KeyPieces

Quotes == {"\"", "'"}

\* The last piece of s[1..p] that is not white space, 0 when there is none.
LastNonSpace(s, p) ==
  IF \A n \in 1..p : IsSpace(s[n]) THEN 0
  ELSE CHOOSE n \in 1..p : ~IsSpace(s[n]) /\ \A m \in (n + 1)..p : IsSpace(s[m])

\* s[1..k] ends with the word w, letter case ignored (re.IGNORECASE).
EndsWithWord(s, k, w) ==
  k >= Len(w) /\ Lower[SubSeq(s, k - Len(w) + 1, k)] = w

\* Where the keyword ends when the key at j follows `word \s* sep \s* quote?`
\* (the quote only where the pattern has one); 0 when it does not.
KeywordEnd(s, j, words, seps, quoted) ==
  LET q == IF quoted /\ j > 1 /\ s[j - 1] \in Quotes THEN j - 2 ELSE j - 1
      a == LastNonSpace(s, q)
      k == IF a > 0 /\ s[a] \in seps THEN LastNonSpace(s, a - 1) ELSE 0
  IN  IF k > 0 /\ \E w \in words : EndsWithWord(s, k, w) THEN k ELSE 0

\* lines 66-71: (api[_-]?key|apikey|token|secret|password)\s*[:=]\s*["']?KEY["']?
ApiKeyWords ==
  {<<"a","p","i","_","k","e","y">>, <<"a","p","i","-","k","e","y">>,
   <<"a","p","i","k","e","y">>, <<"t","o","k","e","n">>,
   <<"s","e","c","r","e","t">>, <<"p","a","s","s","w","o","r","d">>}

RedactApiKeys[s \in Seq(STRING)] ==
  LET hits == {j \in DOMAIN s :
                 IsKey(s[j]) /\ KeywordEnd(s, j, ApiKeyWords, {":", "="}, TRUE) > 0}
  IN  IF hits = {} THEN s
      ELSE LET j == CHOOSE h \in hits : \A g \in hits : h <= g
               k == KeywordEnd(s, j, ApiKeyWords, {":", "="}, TRUE)
               rest == IF j < Len(s) /\ s[j + 1] \in Quotes THEN j + 2 ELSE j + 1
           IN  SubSeq(s, 1, k) \o <<"=", Redacted>>
                 \o RedactApiKeys[SubSeq(s, rest, Len(s))]

\* Where 'Bearer' begins when the key at j follows `Bearer\s+`; 0 otherwise.
BearerStart(s, j) ==
  LET a == LastNonSpace(s, j - 1)
  IN  IF a > 0 /\ a < j - 1 /\ EndsWithWord(s, a, <<"b","e","a","r","e","r">>)
      THEN a - 5
      ELSE 0

\* lines 74-79: Bearer\s+KEY
RedactBearer[s \in Seq(STRING)] ==
  LET hits == {j \in DOMAIN s : IsKey(s[j]) /\ BearerStart(s, j) > 0}
  IN  IF hits = {} THEN s
      ELSE LET j == CHOOSE h \in hits : \A g \in hits : h <= g
           IN  SubSeq(s, 1, BearerStart(s, j) - 1)
                 \o <<"B","e","a","r","e","r"," ", Redacted>>
                 \o RedactBearer[SubSeq(s, j + 1, Len(s))]

\* lines 82-87: (api\s+key|key)\s*:\s*KEY
RedactKeys[s \in Seq(STRING)] ==
  LET hits == {j \in DOMAIN s :
                 IsKey(s[j]) /\ KeywordEnd(s, j, {<<"k","e","y">>}, {":"}, FALSE) > 0}
  IN  IF hits = {} THEN s
      ELSE LET j == CHOOSE h \in hits : \A g \in hits : h <= g
               k == KeywordEnd(s, j, {<<"k","e","y">>}, {":"}, FALSE)
           IN  SubSeq(s, 1, k) \o <<":", " ", Redacted>>
                 \o RedactKeys[SubSeq(s, j + 1, Len(s))]

\* lines 92-96: \b(sk-[a-zA-Z0-9._-]{30,}|[a-zA-Z0-9._-]{50,})\b
RedactLongKeys ==
  [s \in Seq(STRING) |->
     [i \in DOMAIN s |-> IF s[i] \in {"<sk-key>", "<key50>"} THEN Redacted ELSE s[i]]]

Sanitize ==
  [s \in Seq(STRING) |->
     IF s = << >> THEN s
     ELSE RedactLongKeys[RedactKeys[RedactBearer[RedactApiKeys[s]]]]]

(***************************************************************************)
(* scout.models: the three enumerations, in definition order.              *)
(***************************************************************************)
JobLevel ==
  << [name |-> <<"I","N","T","E","R","N">>,
      value |-> <<"i","n","t","e","r","n">>],
     [name |-> <<"E","N","T","R","Y">>,
      value |-> <<"e","n","t","r","y">>],
     [name |-> <<"M","I","D">>,
      value |-> <<"m","i","d">>],
     [name |-> <<"S","E","N","I","O","R">>,
      value |-> <<"s","e","n","i","o","r">>],
     [name |-> <<"S","T","A","F","F">>,
      value |-> <<"s","t","a","f","f">>],
     [name |-> <<"P","R","I","N","C","I","P","A","L">>,
      value |-> <<"p","r","i","n","c","i","p","a","l">>],
     [name |-> <<"E","X","E","C","U","T","I","V","E">>,
      value |-> <<"e","x","e","c","u","t","i","v","e">>] >>

RemoteType ==
  << [name |-> <<"O","N","_","S","I","T","E">>,
      value |-> <<"o","n","_","s","i","t","e">>],
     [name |-> <<"R","E","M","O","T","E">>,
      value |-> <<"r","e","m","o","t","e">>],
     [name |-> <<"H","Y","B","R","I","D">>,
      value |-> <<"h","y","b","r","i","d">>],
     [name |-> <<"F","L","E","X","I","B","L","E">>,
      value |-> <<"f","l","e","x","i","b","l","e">>] >>

AtsType ==
  << [name |-> <<"G","R","E","E","N","H","O","U","S","E">>,
      value |-> <<"g","r","e","e","n","h","o","u","s","e">>],
     [name |-> <<"L","E","V","E","R">>,
      value |-> <<"l","e","v","e","r">>],
     [name |-> <<"W","O","R","K","D","A","Y">>,
      value |-> <<"w","o","r","k","d","a","y">>],
     [name |-> <<"T","A","L","E","O">>,
      value |-> <<"t","a","l","e","o">>],
     [name |-> <<"I","C","I","M","S">>,
      value |-> <<"i","c","i","m","s">>],
     [name |-> <<"C","U","S","T","O","M">>,
      value |-> <<"c","u","s","t","o","m">>],
     [name |-> <<"U","N","K","N","O","W","N">>,
      value |-> <<"u","n","k","n","o","w","n">>] >>

\* The members of an enumeration as Python values.
Members(cls, enum) == {Member(cls, enum[i]) : i \in DOMAIN enum}

(***************************************************************************)
(* Exceptions: kind, message (str(e)) and __cause__.                       *)
(***************************************************************************)
Error(kind, msg, cause) == [kind |-> kind, msg |-> msg, cause |-> cause]

\* isinstance(e, cls) for the exception classes that occur: pydantic's
\* ValidationError derives from ValueError, everything from Exception.
IsInstance(kind, cls) ==
  \/ kind = cls
  \/ cls = "Exception"
  \/ kind = "ValidationError" /\ cls = "ValueError"

(***************************************************************************)
(* extract_job_info, lines 367-370: the rate-limit test on str(e).lower(). *)
(***************************************************************************)
\* The test without "usage limit".
IsRateLimit_NoUsageLimit(e) ==
  LET error_msg == Lower[e.msg]
  IN  \/ Contains(error_msg, <<"r","a","t","e"," ","l","i","m","i","t">>)
      \/ Contains(error_msg, <<"4","2","9">>)

\* The test on str(e) instead of str(e).lower().
IsRateLimit_CaseSensitive(e) ==
  \/ Contains(e.msg, <<"r","a","t","e"," ","l","i","m","i","t">>)
  \/ Contains(e.msg, <<"4","2","9">>)
  \/ Contains(e.msg, <<"u","s","a","g","e"," ","l","i","m","i","t">>)

IsRateLimit(e) ==
  LET error_msg == Lower[e.msg]
  IN  \/ Contains(error_msg, <<"r","a","t","e"," ","l","i","m","i","t">>)
      \/ Contains(error_msg, <<"4","2","9">>)
      \/ Contains(error_msg, <<"u","s","a","g","e"," ","l","i","m","i","t">>)

(***************************************************************************)
(* extract_job_info, lines 499-504: the outer handler.  ValueError and     *)
(* RuntimeError are re-raised as they are, anything else is wrapped.       *)
(***************************************************************************)
\* The handler wrapping every exception.
OuterHandler_WrapAll(e) ==
  Error("RuntimeError", <<"Job extraction failed: ">> \o e.msg, e)

\* The handler with `except ValueError` only.
OuterHandler_ValueErrorOnly(e) ==
  IF IsInstance(e.kind, "ValueError")
  THEN e
  ELSE Error("RuntimeError", <<"Job extraction failed: ">> \o e.msg, e)

\* The handler without `from e`.
OuterHandler_NoCause(e) ==
  IF IsInstance(e.kind, "ValueError") \/ IsInstance(e.kind, "RuntimeError")
  THEN e
  ELSE Error("RuntimeError", <<"Job extraction failed: ">> \o e.msg, None)

OuterHandler(e) ==
  IF IsInstance(e.kind, "ValueError") \/ IsInstance(e.kind, "RuntimeError")
  THEN e
  ELSE Error("RuntimeError", <<"Job extraction failed: ">> \o e.msg, e)

\* The ValidationError re-raised as it is.
ValidationHandler_Reraise(ve) == ve

\* lines 362-365: a ValidationError of the first request.
ValidationHandler(ve) ==
  Error("RuntimeError", <<"Extracted data validation failed: ">> \o ve.msg, ve)

(***************************************************************************)
(* extract_job_info, lines 430-478: one enum field of the result.  The     *)
(* three blocks (level, remote_type, ats) are the same code.               *)
(***************************************************************************)
\* The for loop over the members, from member i on: the first member whose
\* value or name matches, or None when the loop ends unmatched.
FixEnum(v, cls, enum) ==
  LET MatchEnum[s \in Seq(STRING), i \in Nat] ==
        IF i > Len(enum) THEN None
        ELSE IF Lower[enum[i].value] = s THEN Member(cls, enum[i])
        ELSE IF Upper[enum[i].name] = Upper[s] THEN Member(cls, enum[i])
        ELSE MatchEnum[s, i + 1]
  IN  IF Truthy(v) /\ IsStr(v)
      THEN MatchEnum[Lower[Strip[v.s]], 1]
      ELSE v

\* The test without `result.url.lower() == "unknown"`.
ResolveUrl_ExactOnly(extracted_url, caller_url) ==
  IF \/ ~Truthy(extracted_url)
     \/ extracted_url.s = <<"u","n","k","n","o","w","n">>
  THEN caller_url
  ELSE extracted_url

\* The assignment without the test.
ResolveUrl_Always(extracted_url, caller_url) == caller_url

\* lines 485-487
ResolveUrl(extracted_url, caller_url) ==
  IF \/ ~Truthy(extracted_url)
     \/ extracted_url.s = <<"u","n","k","n","o","w","n">>
     \/ Lower[extracted_url.s] = <<"u","n","k","n","o","w","n">>
  THEN caller_url
  ELSE extracted_url

\* The normalization filling in a salary that is absent as well.
Normalize_FillSalary(r, caller_url) ==
  [r EXCEPT
     !.salary = IF Truthy(r.salary) THEN r.salary
                ELSE Str(<<"u","n","k","n","o","w","n">>),
     !.level = FixEnum(r.level, "JobLevel", JobLevel),
     !.remote_type = FixEnum(r.remote_type, "RemoteType", RemoteType),
     !.ats = FixEnum(r.ats, "AtsType", AtsType),
     !.url = ResolveUrl(r.url, caller_url)]

\* lines 425-487: the result after the enum fix and the URL step.
Normalize(r, caller_url) ==
  [r EXCEPT
     !.level = FixEnum(r.level, "JobLevel", JobLevel),
     !.remote_type = FixEnum(r.remote_type, "RemoteType", RemoteType),
     !.ats = FixEnum(r.ats, "AtsType", AtsType),
     !.url = ResolveUrl(r.url, caller_url)]

\* The check on company alone.
MissingRequired_CompanyOnly(r) == ~Truthy(r.company)

\* The check without location.
MissingRequired_NoLocation(r) ==
  ~Truthy(r.company) \/ ~Truthy(r.title)

\* line 490
MissingRequired(r) ==
  ~Truthy(r.company) \/ ~Truthy(r.title) \/ ~Truthy(r.location)

\* lines 491-494
MissingRequiredError(r) ==
  Error("ValueError",
        <<"Extraction failed: missing required fields. ", "Got company=">>
          \o Format(r.company) \o <<", title=">> \o Format(r.title)
          \o <<", location=">> \o Format(r.location),
        None)

(***************************************************************************)
(* Preprocessing, lines 296-321 and 346-356.  A piece "<html>", "<body>"   *)
(* (in either case) or "<p>" is an opening tag; every other piece is a     *)
(* character of visible text.                                              *)
(***************************************************************************)
max_chars == 300000

TruncationMarker ==
  <<"\n","[",".",".","."," ","t","r","u","n","c","a","t","e","d"," ",".",".",".","]">>

IsTag(c) == LowerChar(c) \in {"<html>", "<body>"}

\* What html.parser takes for a tag.
IsMarkup(c) == IsTag(c) \/ c = "<p>"

\* The test on text instead of text.lower().
LooksLikeHtml_CaseSensitive(t) == \E i \in DOMAIN t : t[i] \in {"<html>", "<body>"}

\* line 347
LooksLikeHtml(t) == \E i \in DOMAIN t : IsTag(t[i])

\* The text nodes of the parsed document, in order.
RECURSIVE TextNodes(_)
TextNodes(html) ==
  IF html = << >> THEN << << >> >>
  ELSE LET rest == TextNodes(Tail(html))
       IN  IF IsMarkup(Head(html))
           THEN << << >> >> \o rest
           ELSE << <<Head(html)>> \o Head(rest) >> \o Tail(rest)

RECURSIVE JoinLines(_)
JoinLines(lines) ==
  IF lines = << >> THEN << >>
  ELSE IF Len(lines) = 1 THEN lines[1]
  ELSE lines[1] \o <<"\n">> \o JoinLines(Tail(lines))

\* soup.get_text(separator="\n", strip=True)
GetText(html) ==
  LET nodes == TextNodes(html)
      stripped == [i \in DOMAIN nodes |-> Strip[nodes[i]]]
  IN  JoinLines(SelectSeq(stripped, LAMBDA n : n # << >>))

\* The cut without the marker.
Truncate_NoMarker(t, b) ==
  IF Len(t) > b
  THEN SubSeq(t, 1, b)
  ELSE t

\* lines 316-319 and 351-354
Truncate(t, b) ==
  IF Len(t) > b
  THEN SubSeq(t, 1, b) \o TruncationMarker
  ELSE t

\* _clean_and_truncate_html
CleanAndTruncateHtml(html, b) == Truncate(GetText(html), b)

\* lines 346-356
Preprocess(t, b) ==
  IF LooksLikeHtml(t)
  THEN CleanAndTruncateHtml(t, b)
  ELSE IF Len(t) > b
       THEN Truncate(t, b)
       ELSE Strip[t]

(***************************************************************************)
(* State.                                                                  *)
(***************************************************************************)
VARIABLES
  STRUCTURED_PROGRAM_AVAILABLE, \* extractor.py:8-21
  OLLAMA_AVAILABLE,             \* extractor.py:26-31
  OPENAI_AVAILABLE,             \* extractor.py:34-39
  OLLAMA_API_KEY,               \* config.py:8, TRUE when set and non-empty
  OPENAI_API_KEY,               \* config.py:15, TRUE when set and non-empty
  budget,                       \* extractor.py:296 and 351, max_chars
  program_cache,                \* extractor.py:109, _program_cache
  calls,                        \* invocations of extract_job_info so far
  pc,                           \* position in the current invocation
  text,                         \* argument text
  url,                          \* argument url
  program,                      \* local program
  text_for_extraction,          \* local text_for_extraction
  requests,                     \* program(input_text=...) calls issued
  first_error,                  \* what the first request raised, or None
  retry_error,                  \* what the fallback request raised, or None
  extracted,                    \* what the program returned, or None
  result,                       \* local result
  returned,                     \* the JobInfo returned to the caller, or None
  raised,                       \* the error raised to the caller, or None
  constructions,                \* LLM clients constructed by the invocation
  emitted,                      \* records the last step logged at a failure point
  startup,                      \* what importing the package scout did
  agent_pc,                     \* position in run_scout_agent
  agent_url,                    \* job_agent.py:11, argument url
  worksheet,                    \* job_agent.py:11, argument worksheet, or None
  gotos,                        \* fetcher.py:87 and 92, page.goto calls made
  html_content,                 \* job_agent.py:32, what fetch_job_page returned
  pipeline_emitted,             \* records the last step of the pipeline logged
  agent_returned,               \* what run_scout_agent returned, or None
  agent_raised,                 \* what run_scout_agent raised, or None
  sheet_pc,                     \* position in log_job_to_sheet
  job,                          \* tracker.py:265, argument job
  today,                        \* tracker.py:301
  appended,                     \* worksheet.append_row calls made
  range_name,                   \* tracker.py:163 and 167
  retry_count,                  \* tracker.py:187
  executes,                     \* how each values().append().execute() ended
  sheet_raised,                 \* what log_job_to_sheet raised, or None
  thread_pc,                    \* position of each thread in get_job_info_program
  thread_built,                 \* the program each thread constructed, or None
  thread_result,                \* what each thread's call returned or raised
  llm_pc,                       \* position in OllamaCloudLLM.complete or chat
  llm_method,                   \* which of complete and chat was called
  llm_model,                    \* ollama_llm.py:61, self.model
  llm_response,                 \* what self.client.generate or chat returned
  llm_result,                   \* what the method returned or raised
  llm_emitted                   \* records the method logged

config ==
  <<STRUCTURED_PROGRAM_AVAILABLE, OLLAMA_AVAILABLE, OPENAI_AVAILABLE,
    OLLAMA_API_KEY, OPENAI_API_KEY, budget>>

locals ==
  <<text, url, program, text_for_extraction, requests, first_error,
    retry_error, extracted, result, returned, raised, constructions, emitted>>

agent == <<agent_pc, agent_url, worksheet, agent_returned, agent_raised>>

fetcher == <<gotos, html_content>>

tracker ==
  <<sheet_pc, job, today, appended, range_name, retry_count, executes,
    sheet_raised>>

pipeline == <<agent, fetcher, tracker, pipeline_emitted>>

threads == <<thread_pc, thread_built, thread_result>>

wrapper == <<llm_pc, llm_method, llm_model, llm_response, llm_result, llm_emitted>>

\* What a step of extract_job_info leaves alone.
outside == <<startup, pipeline, threads, wrapper>>

vars == <<config, program_cache, calls, pc, locals, outside>>

(***************************************************************************)
(* Inputs: argument values and what the environment (the LLM libraries     *)
(* and the provider) can answer.                                           *)
(***************************************************************************)
TextAlphabet == {" ", "a", "<HTML>"}

\* Text with white space around it and markup in it, and a page with text
\* around its tags.
LongTexts == {<<" ", "<p>", "a", " ">>, <<" ", "<BODY>", "a", "<p>", "a">>}

Texts == UNION {[1..n -> TextAlphabet] : n \in 0..MaxTextLen} \cup LongTexts

\* line 324: the default of the url argument.
DefaultUrl == Str(<<"u","n","k","n","o","w","n">>)

\* The url argument: its default, the empty string and a real URL.
Urls ==
  {DefaultUrl, Str(<< >>),
   Str(<<"h","t","t","p","s",":","/","/","x","/","1">>)}

\* The calls made: every text with the default url, and one text with
\* every url (the code never relates the two arguments).
Inputs ==
  {<<t, DefaultUrl>> : t \in Texts} \cup {<< <<"a">>, u >> : u \in Urls}

\* Whether each constructor call succeeds:
\* OllamaCloudLLM(...), OpenAI(...), StructuredLLMProgram.from_defaults(...)
\* and StructuredLLMProgram(...).
Constructions ==
  [ollama : BOOLEAN, openai : BOOLEAN, from_defaults : BOOLEAN, ctor : BOOLEAN]

\* Whether each constructor call of the fallback branch (lines 405-417)
\* succeeds: OpenAI(...) and StructuredLLMProgram.from_defaults(...).
FallbackConstructions == [openai : BOOLEAN, from_defaults : BOOLEAN]

\* What a failing constructor raises.
ConstructionError ==
  Error("Exception", <<"b","a","d"," ","m","o","d","e","l">>, None)

\* What program(input_text=...) can raise.
ProgramErrors ==
  {Error("Exception", m, None) :
     m \in {<<"A","P","I"," ","e","r","r","o","r">>,
            <<"H","T","T","P"," ","4","2","9">>,
            <<"R","a","t","e"," ","L","i","m","i","t"," ","h","i","t">>,
            <<"U","S","A","G","E"," ","L","I","M","I","T">>,
            <<"r","a","t","e","l","i","m","i","t">>}}
  \cup
  {Error(k, m, None) :
     k \in {"RuntimeError", "ValueError"},
     m \in {<<"A","P","I"," ","e","r","r","o","r">>,
            <<"H","T","T","P"," ","4","2","9">>}}
  \cup
  {Error("ValidationError", m, None) :
     m \in {<<"F","i","e","l","d"," ","r","e","q","u","i","r","e","d">>,
            <<"i","n","p","u","t","_","v","a","l","u","e","=","4","2","9">>}}
  \cup
  {Error(k, <<"t","o","k","e","n","=","<key20>">>, None) :
     k \in {"Exception", "ValidationError"}}

\* A complete, already valid result.
BaseResult ==
  [company |-> Str(<<"A","c","m","e">>),
   contact_person |-> None,
   title |-> Str(<<"D","e","v">>),
   location |-> Str(<<"A","u","s","t","i","n">>),
   salary |-> None,
   url |-> Str(<<"h","t","t","p","s",":","/","/","r","e","a","l","/","2">>),
   date_applied |-> None,
   date_confirmation |-> None,
   date_latest_reply |-> None,
   status |-> None,
   reason_outcome |-> None,
   level |-> None,
   remote_type |-> None,
   ats |-> None]

RawLevels ==
  {None, Str(<< >>), Str(<<" ">>),
   Str(<<"e","n","t","r","y">>), Str(<<"E","N","T","R","Y">>),
   Str(<<" ","E","n","t","r","y"," ">>),
   Str(<<"J","o","b","L","e","v","e","l",".","E","N","T","R","Y">>),
   Str(<<"b","o","g","u","s">>),
   Member("JobLevel", JobLevel[2])}

RawRemoteTypes ==
  {Str(<< >>), Str(<<"O","N","_","S","I","T","E">>),
   Str(<<"R","e","m","o","t","e","T","y","p","e",".","H","Y","B","R","I","D">>),
   Member("RemoteType", RemoteType[3])}

RawAtsTypes ==
  {Str(<< >>), Str(<<"l","e","v","e","r">>),
   Str(<<"u","n","k","n","o","w","n">>),
   Str(<<"b","o","g","u","s">>),
   Member("AtsType", AtsType[1])}

RawUrls ==
  {None, Str(<< >>), Str(<<"u","n","k","n","o","w","n">>),
   Str(<<"U","N","K","N","O","W","N">>), Str(<<"U","n","k","n","o","w","n">>)}

\* What program(input_text=...) can return: every combination of present
\* and absent required fields, and every listed value of each other field.
Results ==
  {[BaseResult EXCEPT !.company = c, !.title = t, !.location = l] :
     c \in {None, Str(<< >>), Str(<<" ">>), Str(<<"A","c","m","e">>)},
     t \in {Str(<< >>), Str(<<"D","e","v">>)},
     l \in {Str(<< >>), Str(<<"A","u","s","t","i","n">>)}}
  \cup {[BaseResult EXCEPT !.url = u] : u \in RawUrls}
  \cup {[BaseResult EXCEPT !.level = v] : v \in RawLevels}
  \cup {[BaseResult EXCEPT !.remote_type = v] : v \in RawRemoteTypes}
  \cup {[BaseResult EXCEPT !.ats = v] : v \in RawAtsTypes}
  \cup {[BaseResult EXCEPT !.level = Str(<< >>), !.company = Str(<< >>)],
        [BaseResult EXCEPT !.contact_person = Str(<<"H","R">>),
                           !.salary = Str(<<"9","0","k">>),
                           !.status = Str(<<"n","e","w">>),
                           !.level = Member("JobLevel", JobLevel[1]),
                           !.remote_type = Member("RemoteType", RemoteType[1]),
                           !.ats = Member("AtsType", AtsType[2])]}

(***************************************************************************)
(* get_job_info_program, lines 112-225.                                    *)
(***************************************************************************)
Program(provider, id) == [tag |-> "program", provider |-> provider, id |-> id]

\* One constructor call of an LLM client and whether it succeeded.
Attempt(ctor, ok) == [ctor |-> ctor, ok |-> ok]

\* One logger call at a failure point: its level, its message and str(e) of
\* the exception the message is about.
LogRecord(level, msg, e) == [level |-> level, msg |-> msg, error |-> e.msg]

\* The test without the credential.
TryPrimary_NoCredential == OLLAMA_AVAILABLE

\* line 135
TryPrimary == OLLAMA_AVAILABLE /\ OLLAMA_API_KEY

\* lines 131-174: the LLM chosen or the error raised, the constructor calls
\* made and the records logged.
SelectLLM(c) ==
  LET first == IF TryPrimary
               THEN <<Attempt("OllamaCloudLLM", c.ollama)>>
               ELSE << >>
      Selected(llm, error, made) ==
        [llm |-> llm, error |-> error, made |-> made,
         logged |-> IF TryPrimary /\ ~c.ollama
                    THEN <<LogRecord("warning",
                                     <<"Failed to initialize Ollama LLM: ">>
                                       \o Sanitize[ConstructionError.msg]
                                       \o <<", will try OpenAI fallback">>,
                                     ConstructionError)>>
                    ELSE << >>]
  IN  IF TryPrimary /\ c.ollama
      THEN Selected("ollama", None, first)
      ELSE IF ~OPENAI_AVAILABLE
      THEN Selected("none",
                    Error("ImportError",
                          <<"Neither Ollama nor OpenAI LLM is available. ",
                            "Please install: pip install ollama (for Ollama) or llama-index-llms-openai (for OpenAI)">>,
                          None),
                    first)
      ELSE IF ~OPENAI_API_KEY
      THEN Selected("none",
                    Error("ValueError",
                          <<"Ollama LLM failed or not configured, and OPENAI_API_KEY is not set. ",
                            "Please set either OLLAMA_API_KEY or OPENAI_API_KEY in your .env file.">>,
                          None),
                    first)
      ELSE IF c.openai
      THEN Selected("openai", None, Append(first, Attempt("OpenAI", TRUE)))
      ELSE Selected("none",
                    Error("RuntimeError",
                          <<"Failed to initialize OpenAI LLM: ">>
                            \o ConstructionError.msg
                            \o <<". Please check your OPENAI_API_KEY is valid.">>,
                          None),
                    Append(first, Attempt("OpenAI", FALSE)))

\* The cache never hit.
CacheHit_Never == FALSE

\* line 120
CacheHit == program_cache # None

\* config.py lines 27-36, validate_config: the error raised, or None.
ValidateConfig ==
  IF ~OLLAMA_API_KEY /\ ~OPENAI_API_KEY
  THEN Error("ValueError",
             <<"At least one LLM API key is required.\n",
               "Set OLLAMA_API_KEY (free) or OPENAI_API_KEY (fallback) in your .env file:\n",
               "  OLLAMA_API_KEY=your-ollama-key\n",
               "  OPENAI_API_KEY=your-openai-key  # Optional fallback">>,
             None)
  ELSE None

\* lines 123-127: the error raised, or None.
StructuredProgramCheck ==
  IF ~STRUCTURED_PROGRAM_AVAILABLE
  THEN Error("ImportError",
             <<"LlamaIndex structured program not available. ",
               "Please ensure llama-index-core is properly installed.">>,
             None)
  ELSE None

\* validate_config() called before the availability test.
Precheck_ValidateFirst ==
  IF ValidateConfig # None THEN ValidateConfig ELSE StructuredProgramCheck

\* lines 123-129: what is raised before a provider is selected, or None.
Precheck ==
  IF StructuredProgramCheck # None THEN StructuredProgramCheck ELSE ValidateConfig

\* line 212
FromDefaultsWarning ==
  LogRecord("warning",
            <<"Failed to create program with from_defaults: ">>
              \o Sanitize[ConstructionError.msg],
            ConstructionError)

\* lines 123-225, past the cache test: the program constructed or the
\* error raised (one of them None), the constructor calls made and the
\* records logged; id names the program constructed.
ConstructProgram(c, id) ==
  LET Built(sel) ==
        IF sel.error # None
        THEN [program |-> None, error |-> sel.error,
              made |-> sel.made, logged |-> sel.logged]
        ELSE IF c.from_defaults
        THEN [program |-> Program(sel.llm, id), error |-> None,
              made |-> sel.made, logged |-> sel.logged]
        ELSE [program |-> IF c.ctor THEN Program(sel.llm, id) ELSE None,
              error |-> IF c.ctor THEN None
                        ELSE Error("RuntimeError",
                                   <<"Failed to create structured program: ">>
                                     \o ConstructionError.msg
                                     \o <<". Please check LlamaIndex version compatibility.">>,
                                   ConstructionError),
              made |-> sel.made,
              logged |-> Append(sel.logged, FromDefaultsWarning)]
  IN  IF Precheck # None
      THEN [program |-> None, error |-> Precheck, made |-> << >>, logged |-> << >>]
      ELSE Built(SelectLLM(c))

\* The program returned and the error raised (one of them None) by a call
\* made with the cache as it is, the constructor calls it made and the
\* records it logged; id names a program constructed now.
GetJobInfoProgram(c, id) ==
  IF CacheHit
  THEN [program |-> program_cache, error |-> None,
        made |-> << >>, logged |-> << >>]
  ELSE ConstructProgram(c, id)

\* The test without the credential.
FallbackAvailable_NoCredential == OPENAI_AVAILABLE

\* line 370: the fallback credential is configured and OpenAI importable.
FallbackAvailable == OPENAI_API_KEY /\ OPENAI_AVAILABLE

(***************************************************************************)
(* extract_job_info, lines 324-504, step by step.                          *)
(***************************************************************************)
Terminal == {"done", "failed"}

Request == [program |-> program, input_text |-> text_for_extraction]

\* line 503: what the last handler logs before it wraps an exception.
OuterLog(e) ==
  IF IsInstance(e.kind, "ValueError") \/ IsInstance(e.kind, "RuntimeError")
  THEN << >>
  ELSE <<LogRecord("error",
                   <<"Unexpected error during job extraction: ">> \o Sanitize[e.msg],
                   e)>>

\* line 364
ValidationLog(ve) ==
  LogRecord("error", <<"Validation error during extraction: ">> \o ve.msg, ve)

\* line 371
ThrottleLog(e) ==
  LogRecord("warning",
            <<"Ollama rate limit hit: ">> \o Sanitize[e.msg]
              \o <<". Retrying with OpenAI fallback...">>,
            e)

\* The test on text alone.
IsEmptyInput_NoStrip(t) == t = << >>

\* line 340: `not text or not text.strip()`
IsEmptyInput(t) == t = << >> \/ Strip[t] = << >>

\* scout/__init__.py lines 8-24, run when the package is first imported: an
\* Ollama client is constructed and a chat request is sent with it.  The
\* import fails when the request does.
ImportScout(ok) ==
  /\ pc = "unloaded"
  /\ startup' = <<"Client", "client.chat">>
  /\ pc' = IF ok THEN "idle" ELSE "import_failed"
  /\ UNCHANGED <<config, program_cache, calls, locals, pipeline, threads, wrapper>>

\* lines 324-341: the call and the empty-input check.
Call(t, u) ==
  /\ pc \in {"idle"} \cup Terminal
  /\ calls < MaxCalls
  /\ calls' = calls + 1
  /\ text' = t
  /\ url' = u
  /\ program' = None
  /\ text_for_extraction' = << >>
  /\ requests' = << >>
  /\ first_error' = None
  /\ retry_error' = None
  /\ extracted' = None
  /\ result' = None
  /\ returned' = None
  /\ constructions' = << >>
  /\ emitted' = << >>
  /\ IF IsEmptyInput(t)
     THEN /\ raised' = Error("ValueError", <<"Text input cannot be empty">>, None)
          /\ pc' = "failed"
     ELSE /\ raised' = None
          /\ pc' = "select"
  /\ UNCHANGED <<config, program_cache, startup, threads, wrapper>>

\* extract_job_info called on its own.
Invoke(t, u) == Call(t, u) /\ UNCHANGED pipeline

\* The cache assigned before the program is constructed: a call that
\* fails past the selection leaves the LLM client's half-made program in it.
CacheAfter_Early(r) ==
  IF r.error = None THEN r.program
  ELSE IF r.made # << >> THEN Program("none", <<calls, 1>>)
  ELSE program_cache

\* lines 204-225: _program_cache after the call; it is assigned only by a
\* constructor of StructuredLLMProgram that returned.
CacheAfter(r) ==
  IF r.error = None THEN r.program ELSE program_cache

\* line 344
GetProgram(c) ==
  /\ pc = "select"
  /\ \E r \in {GetJobInfoProgram(c, <<calls, 1>>)} :
         /\ constructions' = r.made
         /\ IF r.error = None
            THEN /\ program' = r.program
                 /\ program_cache' = CacheAfter(r)
                 /\ pc' = "preprocess"
                 /\ emitted' = r.logged
                 /\ UNCHANGED raised
            ELSE /\ raised' = OuterHandler(r.error)
                 /\ pc' = "failed"
                 /\ emitted' = r.logged \o OuterLog(r.error)
                 /\ program_cache' = CacheAfter(r)
                 /\ UNCHANGED program
  /\ UNCHANGED <<config, outside, calls, text, url, text_for_extraction,
                 requests, first_error, retry_error, extracted, result, returned>>

\* lines 346-356
PreprocessText ==
  /\ pc = "preprocess"
  /\ text_for_extraction' = Preprocess(text, budget)
  /\ pc' = "extract"
  /\ emitted' = << >>
  /\ UNCHANGED <<config, outside, program_cache, calls, text, url, program,
                 requests, first_error, retry_error, extracted, result,
                 returned, raised, constructions>>

\* line 361, the request answered with a result.
ExtractReturns(r) ==
  /\ pc = "extract"
  /\ requests' = Append(requests, Request)
  /\ extracted' = r
  /\ result' = r
  /\ pc' = "normalize"
  /\ emitted' = << >>
  /\ UNCHANGED <<config, outside, program_cache, calls, text, url, program,
                 text_for_extraction, first_error, retry_error, returned,
                 raised, constructions>>

\* The fallback program stored in the cache.
FallbackCache_Stored == Program("openai", <<calls, 2>>)

\* lines 372-374: `_program_cache = None`; nothing is stored afterwards.
FallbackCache == None

\* lines 361-423, the request answered with an error: the two handlers, up
\* to the construction of the fallback program (lines 404-417).
ExtractRaises(e, c) ==
  /\ pc = "extract"
  /\ requests' = Append(requests, Request)
  /\ first_error' = e
  /\ IF IsInstance(e.kind, "ValidationError")
     THEN /\ raised' = OuterHandler(ValidationHandler(e))
          /\ pc' = "failed"
          /\ emitted' = <<ValidationLog(e)>>
          /\ UNCHANGED <<program, program_cache, constructions>>
     ELSE IF IsRateLimit(e) /\ FallbackAvailable
     THEN /\ program_cache' = FallbackCache
          /\ constructions' = Append(constructions, Attempt("OpenAI", c.openai))
          /\ IF c.openai /\ c.from_defaults
             THEN /\ program' = Program("openai", <<calls, 2>>)
                  /\ pc' = "retry"
                  /\ emitted' = <<ThrottleLog(e)>>
                  /\ UNCHANGED raised
             ELSE /\ raised' = OuterHandler(ConstructionError)
                  /\ pc' = "failed"
                  /\ emitted' = <<ThrottleLog(e)>> \o OuterLog(ConstructionError)
                  /\ UNCHANGED program
     ELSE /\ raised' = OuterHandler(e)
          /\ pc' = "failed"
          /\ emitted' = OuterLog(e)
          /\ UNCHANGED <<program, program_cache, constructions>>
  /\ UNCHANGED <<config, outside, calls, text, url, text_for_extraction,
                 retry_error, extracted, result, returned>>

\* line 420, the fallback request answered with a result.
RetryReturns(r) ==
  /\ pc = "retry"
  /\ requests' = Append(requests, Request)
  /\ extracted' = r
  /\ result' = r
  /\ pc' = "normalize"
  /\ emitted' = << >>
  /\ UNCHANGED <<config, outside, program_cache, calls, text, url, program,
                 text_for_extraction, first_error, retry_error, returned,
                 raised, constructions>>

\* line 420, the fallback request answered with an error: it leaves the
\* handler it was raised in and reaches the outer handler.
RetryRaises(e) ==
  /\ pc = "retry"
  /\ requests' = Append(requests, Request)
  /\ retry_error' = e
  /\ raised' = OuterHandler(e)
  /\ pc' = "failed"
  /\ emitted' = OuterLog(e)
  /\ UNCHANGED <<config, outside, program_cache, calls, text, url, program,
                 text_for_extraction, first_error, extracted, result,
                 returned, constructions>>

\* lines 425-497
NormalizeResult ==
  /\ pc = "normalize"
  /\ \E normalized \in {Normalize(result, url)} :
         /\ result' = normalized
         /\ IF MissingRequired(normalized)
            THEN /\ raised' = OuterHandler(MissingRequiredError(normalized))
                 /\ pc' = "failed"
                 /\ UNCHANGED returned
            ELSE /\ returned' = normalized
                 /\ pc' = "done"
                 /\ UNCHANGED raised
  /\ emitted' = << >>
  /\ UNCHANGED <<config, outside, program_cache, calls, text, url, program,
                 text_for_extraction, requests, first_error, retry_error,
                 extracted, constructions>>

Threads == 1..NumThreads

\* Nothing of the pipeline around extract_job_info is running.
PipelineOff ==
  /\ agent_pc = "off"
  /\ agent_url = None
  /\ worksheet = None
  /\ gotos = << >>
  /\ html_content = None
  /\ pipeline_emitted = << >>
  /\ agent_returned = None
  /\ agent_raised = None
  /\ sheet_pc = "off"
  /\ job = None
  /\ today = None
  /\ appended = << >>
  /\ range_name = None
  /\ retry_count = 0
  /\ executes = << >>
  /\ sheet_raised = None

\* No thread is in get_job_info_program.
ThreadsOff ==
  /\ thread_pc = [t \in Threads |-> "off"]
  /\ thread_built = [t \in Threads |-> None]
  /\ thread_result = [t \in Threads |-> None]

\* No call of the LLM wrapper is in progress.
LlmOff ==
  /\ llm_pc = "off"
  /\ llm_method = "none"
  /\ llm_model = << >>
  /\ llm_response = Missing
  /\ llm_result = None
  /\ llm_emitted = << >>

\* No invocation of extract_job_info has been made.
NotCalled ==
  /\ calls = 0
  /\ text = << >>
  /\ url = Str(<< >>)
  /\ program = None
  /\ text_for_extraction = << >>
  /\ requests = << >>
  /\ first_error = None
  /\ retry_error = None
  /\ extracted = None
  /\ result = None
  /\ returned = None
  /\ raised = None
  /\ constructions = << >>
  /\ emitted = << >>

Init ==
  /\ STRUCTURED_PROGRAM_AVAILABLE \in BOOLEAN
  /\ OLLAMA_AVAILABLE \in BOOLEAN
  /\ OPENAI_AVAILABLE \in BOOLEAN
  /\ OLLAMA_API_KEY \in BOOLEAN
  /\ OPENAI_API_KEY \in BOOLEAN
  /\ budget = max_chars
  /\ program_cache = None
  /\ pc = "unloaded"
  /\ startup = << >>
  /\ NotCalled
  /\ PipelineOff
  /\ ThreadsOff
  /\ LlmOff

Next ==
  \/ \E ok \in BOOLEAN : ImportScout(ok)
  \/ \E in \in Inputs : Invoke(in[1], in[2])
  \/ \E c \in Constructions : GetProgram(c)
  \/ PreprocessText
  \/ \E r \in Results : ExtractReturns(r)
  \/ \E e \in ProgramErrors, c \in FallbackConstructions : ExtractRaises(e, c)
  \/ \E r \in Results : RetryReturns(r)
  \/ \E e \in ProgramErrors : RetryRaises(e)
  \/ NormalizeResult

Spec == Init /\ [][Next]_vars

\* The steps of the invocation under way.
Step ==
  \/ \E c \in Constructions : GetProgram(c)
  \/ PreprocessText
  \/ \E r \in Results : ExtractReturns(r)
  \/ \E e \in ProgramErrors, c \in FallbackConstructions : ExtractRaises(e, c)
  \/ \E r \in Results : RetryReturns(r)
  \/ \E e \in ProgramErrors : RetryRaises(e)
  \/ NormalizeResult

\* Preprocessing on its own, lines 346-356, for every budget max_chars up
\* to MaxBudget: an invocation that has passed the empty check and has its
\* program, about to prepare its text.
BudgetTexts ==
  {t \in UNION {[1..n -> TextAlphabet] : n \in 1..MaxBudgetTextLen} :
     ~IsEmptyInput(t)}

BudgetInit ==
  /\ STRUCTURED_PROGRAM_AVAILABLE = TRUE
  /\ OLLAMA_AVAILABLE = TRUE
  /\ OPENAI_AVAILABLE = TRUE
  /\ OLLAMA_API_KEY = TRUE
  /\ OPENAI_API_KEY = TRUE
  /\ budget \in 0..MaxBudget
  /\ program_cache = Program("ollama", <<1, 1>>)
  /\ calls = 1
  /\ pc = "preprocess"
  /\ text \in BudgetTexts
  /\ url = DefaultUrl
  /\ program = Program("ollama", <<1, 1>>)
  /\ text_for_extraction = << >>
  /\ requests = << >>
  /\ first_error = None
  /\ retry_error = None
  /\ extracted = None
  /\ result = None
  /\ returned = None
  /\ raised = None
  /\ constructions = <<Attempt("OllamaCloudLLM", TRUE)>>
  /\ emitted = << >>
  /\ startup = <<"Client", "client.chat">>
  /\ PipelineOff
  /\ ThreadsOff
  /\ LlmOff

BudgetNext == PreprocessText

BudgetSpec == BudgetInit /\ [][BudgetNext]_vars

\* extract_job_info is synchronous: once called it runs on, and a provider
\* request ends (ollama_llm.py, request_timeout).
FairSpec == Spec /\ WF_vars(Step)

(***************************************************************************)
(* tracker.py: log_job_to_sheet and the Worksheet it appends to.           *)
(***************************************************************************)
MAX_RETRIES == 3

\* `v or d` for a str or None v: the text written to the cell.
Or(v, d) == IF Truthy(v) THEN v.s ELSE d

\* `v.value if v else d` for an Enum member or None v.
ValueOr(v, d) == IF Truthy(v) THEN v.value ELSE d

\* The default that replaces a value that is set as well.
DateApplied_Override(j, d) == d

\* line 302
DateApplied(j, d) == Or(j.date_applied, d)

\* line 304
Status(j) == Or(j.status, <<"t","o","_","a","p","p","l","y">>)

\* line 306
AtsValue(j) == ValueOr(j.ats, <<"u","n","k","n","o","w","n">>)

\* The row with title and contact_person in each other's place.
Row_Swapped(j, d) ==
  << Or(j.company, << >>), Or(j.title, << >>), Or(j.contact_person, << >>),
     Or(j.location, << >>), Or(j.salary, << >>), Or(j.url, << >>),
     DateApplied(j, d), Or(j.date_confirmation, << >>),
     Or(j.date_latest_reply, << >>), Status(j),
     Or(j.reason_outcome, << >>), ValueOr(j.level, << >>),
     ValueOr(j.remote_type, << >>), AtsValue(j) >>

\* lines 310-325: row_values
Row(j, d) ==
  << Or(j.company, << >>), Or(j.contact_person, << >>), Or(j.title, << >>),
     Or(j.location, << >>), Or(j.salary, << >>), Or(j.url, << >>),
     DateApplied(j, d), Or(j.date_confirmation, << >>),
     Or(j.date_latest_reply, << >>), Status(j),
     Or(j.reason_outcome, << >>), ValueOr(j.level, << >>),
     ValueOr(j.remote_type, << >>), AtsValue(j) >>

\* datetime.now().strftime("%Y-%m-%d") on the days the model covers.
Days ==
  {<<"2","0","2","4","-","0","1","-","1","5">>,
   <<"2","0","2","4","-","0","1","-","1","6">>}

\* What one values().append(...).execute() does: it returns, or raises an
\* HttpError with a status, or raises something else.
HttpError(code, message) ==
  [kind |-> "HttpError", msg |-> message, cause |-> None, status |-> code]

ExecuteOutcomes ==
  {[tag |-> "ok"]}
  \cup {[tag |-> "raise", error |-> HttpError(c, <<"<HttpError ", c, ">">>)] :
          c \in {"429", "401", "404", "500"}}
  \cup {[tag |-> "raise",
         error |-> [kind |-> "Exception",
                    msg |-> <<"t","i","m","e","d"," ","o","u","t">>,
                    cause |-> None, status |-> "none"]]}

\* The retry test with one attempt more.
CanRetryAppend_OneMore == retry_count <= MAX_RETRIES

\* lines 231 and 257: `retry_count < MAX_RETRIES`
CanRetryAppend == retry_count < MAX_RETRIES

\* The test taking a server error for a quota error as well.
IsQuotaError_ServerError(e) ==
  e.kind = "HttpError" /\ e.status \in {"429", "403", "500"}

\* line 230: `error_code in [429, 403]`
IsQuotaError(e) == e.kind = "HttpError" /\ e.status \in {"429", "403"}

\* lines 226-262: the two handlers of _append_with_retry when this attempt
\* is the last one; what they log with the error's text and what they raise.
AppendFailure(e) ==
  LET plain == Error(e.kind, e.msg, e.cause)
  IN
  IF IsQuotaError(e)
  THEN [logged |-> <<LogRecord("error",
                       <<"Max retries reached for rate limit error: ">> \o e.msg,
                       e)>>,
        error |-> Error("RuntimeError",
                        <<"Google Sheets API rate limit exceeded after 3 retries. ",
                          "Please wait and try again later.">>, plain)]
  ELSE IF e.kind = "HttpError" /\ e.status = "401"
  THEN [logged |-> << >>,
        error |-> Error("ValueError",
                        <<"Authentication failed. Please re-run scripts/sheets_oauth_bootstrap.py">>,
                        plain)]
  ELSE IF e.kind = "HttpError" /\ e.status = "404"
  THEN [logged |-> << >>,
        error |-> Error("ValueError",
                        <<"Spreadsheet or sheet not found. Check spreadsheet_id and sheet_id.">>,
                        plain)]
  ELSE IF e.kind = "HttpError"
  THEN [logged |-> <<LogRecord("error",
                       <<"Google Sheets API error (", e.status, "): ">> \o e.msg,
                       e)>>,
        error |-> Error("RuntimeError",
                        <<"Failed to append row to Google Sheets: ">> \o e.msg,
                        plain)]
  ELSE [logged |-> <<LogRecord("error",
                       <<"Unexpected error appending to Google Sheets: ">> \o e.msg,
                       e)>>,
        error |-> Error("RuntimeError",
                        <<"Failed to append row after 3 retries: ">> \o e.msg,
                        plain)]

\* The last handler repeating the attempt whatever the count.
RetriesAppend_Uncounted(e) ==
  \/ IsQuotaError(e) /\ CanRetryAppend
  \/ e.kind # "HttpError"

\* lines 231 and 254-258: the attempt is repeated.
RetriesAppend(e) ==
  /\ IsQuotaError(e) \/ e.kind # "HttpError"
  /\ CanRetryAppend

\* line 253: logged by the last handler before every retry as well.
UnexpectedLog(e) ==
  IF e.kind = "HttpError" THEN << >>
  ELSE <<LogRecord("error",
                   <<"Unexpected error appending to Google Sheets: ">> \o e.msg,
                   e)>>

\* lines 331-333: the handler of log_job_to_sheet.
SheetHandler(e) ==
  [logged |-> <<LogRecord("error", <<"Failed to log job to sheet: ">> \o e.msg, e)>>,
   error |-> Error("RuntimeError",
                   <<"Failed to log job to Google Sheets: ">> \o e.msg, e)]

\* What _get_sheet_name raises when the spreadsheet cannot be read (line 149).
SheetNameError ==
  Error("ValueError",
        <<"Failed to get sheet name: ", "<HttpError ", "500", ">">>, None)

\* lines 299-328 and 151-168: the row is built and worksheet.append_row is
\* called with it; append_row picks its range.
SheetCall(j, d, named) ==
  /\ job' = j
  /\ today' = d
  /\ appended' = Append(appended, [values |-> Row(j, d),
                                    value_input_option |-> "USER_ENTERED"])
  /\ range_name' = IF named THEN <<"Sheet1", "!A:A">> ELSE <<"A:A">>
  /\ retry_count' = 0
  /\ executes' = << >>
  /\ sheet_raised' = None
  /\ sheet_pc' = "append"
  /\ pipeline_emitted' =
       IF named THEN << >>
       ELSE <<LogRecord("warning",
                        <<"Could not get sheet name, using default: ">>
                          \o SheetNameError.msg,
                        SheetNameError)>>

\* lines 204-262: one attempt of _append_with_retry, and on its last
\* failure the handler of log_job_to_sheet.
SheetAttempt(o) ==
  /\ sheet_pc = "append"
  /\ executes' = Append(executes, o)
  /\ IF o.tag = "ok"
     THEN /\ sheet_pc' = "done"
          /\ pipeline_emitted' = << >>
          /\ UNCHANGED <<retry_count, sheet_raised>>
     ELSE IF RetriesAppend(o.error)
     THEN /\ retry_count' = retry_count + 1
          /\ pipeline_emitted' = UnexpectedLog(o.error)
          /\ UNCHANGED <<sheet_pc, sheet_raised>>
     ELSE LET f == AppendFailure(o.error)
              h == SheetHandler(f.error)
          IN  /\ sheet_raised' = h.error
              /\ sheet_pc' = "failed"
              /\ pipeline_emitted' = f.logged \o h.logged
              /\ UNCHANGED retry_count
  /\ UNCHANGED <<job, today, appended, range_name>>

\* log_job_to_sheet called on its own.
LogJobToSheet(j, d, named) ==
  /\ sheet_pc = "off"
  /\ agent_pc = "off"
  /\ SheetCall(j, d, named)
  /\ UNCHANGED <<config, program_cache, calls, pc, locals, startup, threads, wrapper,
                 agent, fetcher>>

AppendAttempt(o) ==
  /\ SheetAttempt(o)
  /\ UNCHANGED <<config, program_cache, calls, pc, locals, startup, threads, wrapper,
                 agent, fetcher>>

(***************************************************************************)
(* fetcher.py: fetch_job_page, lines 57-111.                               *)
(***************************************************************************)
\* The pages a posting URL can serve.
Pages == {<< >>, <<"<html>", "a">>}

\* What one page.goto(...) does.
GotoOutcomes ==
  {[tag |-> "ok", content |-> p] : p \in Pages}
  \cup {[tag |-> "raise",
         error |-> Error("PlaywrightTimeoutError",
                         <<"Timeout 20000ms exceeded.">>, None)],
        [tag |-> "raise",
         error |-> Error("Exception",
                         <<"n","e","t",":",":","E","R","R"," ",
                           "t","o","k","e","n","=","<key20>">>, None)]}

\* lines 100-105: the two handlers of fetch_job_page.
FetchLog(e) ==
  IF e.kind = "PlaywrightTimeoutError"
  THEN LogRecord("error",
                 <<"Timeout fetching ">> \o agent_url.s
                   \o <<" after trying multiple strategies: ">> \o Sanitize[e.msg],
                 e)
  ELSE LogRecord("error",
                 <<"Error fetching ">> \o agent_url.s \o <<": ">> \o Sanitize[e.msg],
                 e)

\* The second page.goto following any error of the first.
RetriesGoto_AnyError(o) == gotos = << >>

\* lines 86-92: the second page.goto follows a timeout of the first.
RetriesGoto(o) == gotos = << >> /\ o.error.kind = "PlaywrightTimeoutError"

(***************************************************************************)
(* job_agent.py: run_scout_agent, lines 11-50.                             *)
(***************************************************************************)
\* lines 48-50: the handler of run_scout_agent.
AgentHandler(e) ==
  [logged |-> <<LogRecord("error",
                          <<"Pipeline failed for URL ">> \o agent_url.s
                            \o <<": ">> \o e.msg,
                          e)>>,
   error |-> Error("RuntimeError",
                   <<"Job extraction pipeline failed: ">> \o e.msg, e)]

\* line 11: the call.
RunScoutAgent(u, ws) ==
  /\ agent_pc = "off"
  /\ sheet_pc = "off"
  /\ pc = "idle"
  /\ agent_pc' = "fetch"
  /\ agent_url' = u
  /\ worksheet' = ws
  /\ pipeline_emitted' = << >>
  /\ UNCHANGED <<config, program_cache, calls, pc, locals, startup, threads, wrapper,
                 agent_returned, agent_raised, fetcher, tracker>>

\* line 32: fetch_job_page(url), one page.goto at a time.
FetchGoto(o) ==
  /\ agent_pc = "fetch"
  /\ gotos' = Append(gotos,
                     [wait_until |-> IF gotos = << >> THEN "networkidle"
                                     ELSE "domcontentloaded",
                      outcome |-> o])
  /\ IF o.tag = "ok"
     THEN /\ html_content' = o.content
          /\ agent_pc' = "extract"
          /\ pipeline_emitted' = << >>
          /\ UNCHANGED agent_raised
     ELSE IF RetriesGoto(o)
     THEN /\ pipeline_emitted' = << >>
          /\ UNCHANGED <<html_content, agent_pc, agent_raised>>
     ELSE LET h == AgentHandler(o.error)
          IN  /\ agent_raised' = h.error
              /\ agent_pc' = "failed"
              /\ pipeline_emitted' = <<FetchLog(o.error)>> \o h.logged
              /\ UNCHANGED html_content
  /\ UNCHANGED <<config, program_cache, calls, pc, locals, startup, threads, wrapper,
                 agent_url, worksheet, agent_returned, tracker>>

\* line 36: extract_job_info(html_content, url=url) is called.
AgentExtract ==
  /\ agent_pc = "extract"
  /\ Call(html_content, agent_url)
  /\ agent_pc' = "extracting"
  /\ pipeline_emitted' = << >>
  /\ UNCHANGED <<agent_url, worksheet, agent_returned, agent_raised, fetcher,
                 tracker>>

\* The test left out: the job is logged whether or not there is a worksheet.
LogsToSheet_Always == TRUE

\* line 41: `if worksheet is not None`
LogsToSheet == worksheet # None

\* lines 36-46: extract_job_info has returned or raised; with a worksheet
\* the job goes to log_job_to_sheet.
AgentAfterExtract(d, named) ==
  /\ agent_pc = "extracting"
  /\ pc \in Terminal
  /\ IF pc = "failed"
     THEN LET h == AgentHandler(raised)
          IN  /\ agent_raised' = h.error
              /\ agent_pc' = "failed"
              /\ pipeline_emitted' = h.logged
              /\ UNCHANGED <<agent_returned, tracker>>
     ELSE IF LogsToSheet
     THEN /\ SheetCall(returned, d, named)
          /\ agent_pc' = "logging"
          /\ UNCHANGED <<agent_returned, agent_raised>>
     ELSE /\ agent_returned' = returned
          /\ agent_pc' = "done"
          /\ pipeline_emitted' = << >>
          /\ UNCHANGED <<agent_raised, tracker>>
  /\ UNCHANGED <<config, program_cache, calls, pc, locals, startup, threads, wrapper,
                 agent_url, worksheet, fetcher>>

\* lines 41-50: log_job_to_sheet has returned or raised.
AgentAfterLog ==
  /\ agent_pc = "logging"
  /\ sheet_pc \in {"done", "failed"}
  /\ IF sheet_pc = "failed"
     THEN LET h == AgentHandler(sheet_raised)
          IN  /\ agent_raised' = h.error
              /\ agent_pc' = "failed"
              /\ pipeline_emitted' = h.logged
              /\ UNCHANGED agent_returned
     ELSE /\ agent_returned' = job
          /\ agent_pc' = "done"
          /\ pipeline_emitted' = << >>
          /\ UNCHANGED agent_raised
  /\ UNCHANGED <<config, program_cache, calls, pc, locals, startup, threads, wrapper,
                 agent_url, worksheet, fetcher, tracker>>

\* The package is imported, every library and credential is there, and
\* nothing has been called.
Loaded ==
  /\ STRUCTURED_PROGRAM_AVAILABLE = TRUE
  /\ OLLAMA_AVAILABLE = TRUE
  /\ OPENAI_AVAILABLE = TRUE
  /\ OLLAMA_API_KEY = TRUE
  /\ OPENAI_API_KEY = TRUE
  /\ budget = max_chars
  /\ program_cache = None
  /\ pc = "idle"
  /\ startup = <<"Client", "client.chat">>
  /\ NotCalled
  /\ PipelineOff
  /\ ThreadsOff
  /\ LlmOff

\* lines 117-176: the object get_worksheet returns.
Worksheet == [tag |-> "Worksheet"]

\* The url argument of run_scout_agent.
AgentUrls == {Str(<<"h","t","t","p","s",":","/","/","x","/","1">>)}

\* One run of run_scout_agent, with and without a worksheet.
PipelineNext ==
  \/ \E u \in AgentUrls, ws \in {Worksheet, None} : RunScoutAgent(u, ws)
  \/ \E o \in GotoOutcomes : FetchGoto(o)
  \/ AgentExtract
  \/ Step
  \/ \E d \in Days, named \in BOOLEAN : AgentAfterExtract(d, named)
  \/ \E o \in ExecuteOutcomes : AppendAttempt(o)
  \/ AgentAfterLog

PipelineSpec == Loaded /\ [][PipelineNext]_vars

\* A JobInfo with every field set, each to a text of its own.
FullJob ==
  [BaseResult EXCEPT
     !.contact_person = Str(<<"H","R">>),
     !.salary = Str(<<"9","0","k">>),
     !.date_applied = Str(<<"2","0","2","3","-","1","2","-","3","1">>),
     !.date_confirmation = Str(<<"2","0","2","4","-","0","1","-","0","2">>),
     !.date_latest_reply = Str(<<"2","0","2","4","-","0","1","-","0","3">>),
     !.status = Str(<<"a","p","p","l","i","e","d">>),
     !.reason_outcome = Str(<<"o","f","f","e","r">>),
     !.level = Member("JobLevel", JobLevel[4]),
     !.remote_type = Member("RemoteType", RemoteType[2]),
     !.ats = Member("AtsType", AtsType[1])]

\* models.py lines 35-47: the fields declared `| None`, and the str ones.
OptionalFields ==
  {"contact_person", "salary", "date_applied", "date_confirmation",
   "date_latest_reply", "status", "reason_outcome", "level", "remote_type",
   "ats"}

StrFields == DOMAIN BaseResult \ {"level", "remote_type", "ats"}

\* The job argument of log_job_to_sheet: every field set, only the required
\* fields set, one field unset or empty, and every member of every
\* enumeration.
Jobs ==
  {FullJob, BaseResult}
  \cup {[FullJob EXCEPT ![f] = None] : f \in OptionalFields}
  \cup {[FullJob EXCEPT ![f] = Str(<< >>)] : f \in StrFields}
  \cup {[BaseResult EXCEPT ![f] = FullJob[f]] : f \in OptionalFields}
  \cup {[BaseResult EXCEPT !.level = m] : m \in Members("JobLevel", JobLevel)}
  \cup {[BaseResult EXCEPT !.remote_type = m] : m \in Members("RemoteType", RemoteType)}
  \cup {[BaseResult EXCEPT !.ats = m] : m \in Members("AtsType", AtsType)}

\* One call of log_job_to_sheet.
SheetNext ==
  \/ \E j \in Jobs, d \in Days, named \in BOOLEAN : LogJobToSheet(j, d, named)
  \/ \E o \in ExecuteOutcomes : AppendAttempt(o)

SheetSpec == Loaded /\ [][SheetNext]_vars

\* Every values().append(...).execute() ends: the request returns or raises,
\* and the interpreter goes on to the next statement.
FairSheetSpec ==
  SheetSpec /\ WF_vars(\E o \in ExecuteOutcomes : AppendAttempt(o))

(***************************************************************************)
(* get_job_info_program called by several threads at once, lines 118-225.  *)
(* The function takes no lock; a thread can be preempted between the test  *)
(* of the cache (line 120), the construction (lines 131-202), the store    *)
(* (line 204) and the return, which reads the global again (line 225).     *)
(***************************************************************************)
\* The call.
ThreadCall(t) ==
  /\ thread_pc[t] = "off"
  /\ thread_pc' = [thread_pc EXCEPT ![t] = "check"]
  /\ UNCHANGED <<config, program_cache, calls, pc, locals, startup, pipeline, wrapper,
                 thread_built, thread_result>>

\* lines 120-121: `if _program_cache is not None: return _program_cache`
ThreadCheck(t) ==
  /\ thread_pc[t] = "check"
  /\ IF CacheHit
     THEN /\ thread_result' = [thread_result EXCEPT ![t] = program_cache]
          /\ thread_pc' = [thread_pc EXCEPT ![t] = "returned"]
     ELSE /\ thread_pc' = [thread_pc EXCEPT ![t] = "construct"]
          /\ UNCHANGED thread_result
  /\ UNCHANGED <<config, program_cache, calls, pc, locals, startup, pipeline, wrapper,
                 thread_built>>

\* lines 123-202: the program is constructed, or the call raises.
ThreadConstruct(t, c) ==
  /\ thread_pc[t] = "construct"
  /\ \E r \in {ConstructProgram(c, <<t, 1>>)} :
       IF r.error = None
       THEN /\ thread_built' = [thread_built EXCEPT ![t] = r.program]
            /\ thread_pc' = [thread_pc EXCEPT ![t] = "store"]
            /\ UNCHANGED thread_result
       ELSE /\ thread_result' = [thread_result EXCEPT ![t] = r.error]
            /\ thread_pc' = [thread_pc EXCEPT ![t] = "raised"]
            /\ UNCHANGED thread_built
  /\ UNCHANGED <<config, program_cache, calls, pc, locals, startup, pipeline, wrapper>>

\* line 204: `_program_cache = program`
ThreadStore(t) ==
  /\ thread_pc[t] = "store"
  /\ program_cache' = thread_built[t]
  /\ thread_pc' = [thread_pc EXCEPT ![t] = "return"]
  /\ UNCHANGED <<config, calls, pc, locals, startup, pipeline, wrapper, thread_built,
                 thread_result>>

\* line 225: `return _program_cache`
ThreadReturn(t) ==
  /\ thread_pc[t] = "return"
  /\ thread_result' = [thread_result EXCEPT ![t] = program_cache]
  /\ thread_pc' = [thread_pc EXCEPT ![t] = "returned"]
  /\ UNCHANGED <<config, program_cache, calls, pc, locals, startup, pipeline, wrapper,
                 thread_built>>

ConcurrentNext ==
  \E t \in Threads :
    \/ ThreadCall(t)
    \/ ThreadCheck(t)
    \/ \E c \in Constructions : ThreadConstruct(t, c)
    \/ ThreadStore(t)
    \/ ThreadReturn(t)

ConcurrentSpec == Loaded /\ [][ConcurrentNext]_vars

(***************************************************************************)
(* src/scout/llm/ollama_llm.py: OllamaCloudLLM.complete, lines 124-165,    *)
(* and chat, lines 167-208.  What the client returned is an object with    *)
(* attributes, a dict, or something else (a str or None); an attribute or  *)
(* a key that is not there is Missing.                                     *)
(***************************************************************************)
Object(response, message, content) ==
  [tag |-> "object", response |-> response, message |-> message,
   content |-> content]

Dict(response, message, content) ==
  [tag |-> "dict", response |-> response, message |-> message,
   content |-> content]

\* hasattr(v, name)
HasAttr(v, name) == v.tag = "object" /\ v[name] # Missing

\* isinstance(v, dict)
IsDict(v) == v.tag = "dict"

\* v.get(key, default) of a dict
Get(v, key, default) == IF v[key] = Missing THEN default ELSE v[key]

\* bool(v) of a response: an object is true, a dict is true unless empty.
ResponseTruthy(v) ==
  IF v.tag = "object" THEN TRUE
  ELSE IF v.tag = "dict"
       THEN \E k \in {"response", "message", "content"} : v[k] # Missing
       ELSE Truthy(v)

\* str(v) of a response
ResponseStr(v) ==
  IF v.tag = "str" THEN v
  ELSE IF v.tag = "dict" THEN Str(<<"{...}">>)
  ELSE Str(<<"<object>">>)

\* `if not text: text = ""`, lines 151-153 and 194-196, and the completion
\* returned at lines 155 and 198.
CompletionResponse(body, raw) ==
  [kind |-> "CompletionResponse",
   text |-> IF ResponseTruthy(body) THEN body ELSE Str(<< >>),
   raw |-> raw,
   warned |-> ~ResponseTruthy(body)]

\* The else branch at lines 147-149 and 190-192.
OtherText(response) ==
  IF ResponseTruthy(response) THEN ResponseStr(response) ELSE Str(<< >>)

\* The error of calling .get on None, line 191.
NoneHasNoGet ==
  Error("AttributeError",
        <<"'NoneType' object has no attribute 'get'">>, None)

\* lines 142-155
CompleteText(response) ==
  IF HasAttr(response, "response")
  THEN CompletionResponse(response.response, response)
  ELSE IF IsDict(response)
       THEN CompletionResponse(Get(response, "response", Str(<< >>)), response)
       ELSE CompletionResponse(OtherText(response), response)

\* line 191: response.get("message", {}).get("content", "")
ChatDictText(response) ==
  IF response.message = Missing
  THEN CompletionResponse(Str(<< >>), response)
  ELSE IF IsDict(response.message)
       THEN CompletionResponse(Get(response.message, "content", Str(<< >>)),
                               response)
       ELSE NoneHasNoGet

\* lines 184-198
ChatText(response) ==
  IF HasAttr(response, "message") /\ HasAttr(response.message, "content")
  THEN CompletionResponse(response.message.content, response)
  ELSE IF HasAttr(response, "message") /\ IsDict(response.message)
       THEN CompletionResponse(
              Get(response.message, "content", Str(<< >>)), response)
       ELSE IF IsDict(response)
            THEN ChatDictText(response)
            ELSE CompletionResponse(OtherText(response), response)

\* The texts a response carries.
BodyTexts == {None, Str(<< >>), Str(<<"o", "k">>)}

\* A message of a chat response: an object or a dict, with or without its
\* content.
Messages ==
  {Object(Missing, Missing, c) : c \in BodyTexts \cup {Missing}}
    \cup {Dict(Missing, Missing, c) : c \in BodyTexts \cup {Missing}}

\* What self.client.generate returns.
GenerateResponses ==
  {Object(r, Missing, Missing) : r \in BodyTexts \cup {Missing}}
    \cup {Dict(r, Missing, Missing) : r \in BodyTexts \cup {Missing}}
    \cup BodyTexts

\* What self.client.chat returns.
ChatResponses ==
  {Object(Missing, m, Missing) : m \in Messages \cup {None, Missing}}
    \cup {Dict(Missing, m, Missing) : m \in Messages \cup {None, Missing}}
    \cup BodyTexts

\* What the client raises.
ClientErrors ==
  {Error("ResponseError", <<"m","o","d","e","l"," ","N","o","t"," ",
                             "f","o","u","n","d">>, None),
   Error("ResponseError", <<"4","0","4">>, None),
   Error("ConnectionError",
         <<"u","n","a","u","t","h","o","r","i","z","e","d"," ",
           "k","e","y","=","<key20>">>, None)}

Models == {<<"gpt-oss:120b">>, <<"llama3.2">>}

\* lines 158-164: the record logged when complete fails.
CompleteErrorLog(e) ==
  IF \/ Contains(Lower[e.msg], <<"n","o","t"," ","f","o","u","n","d">>)
     \/ Contains(e.msg, <<"4","0","4">>)
  THEN [level |-> "ERROR",
        msg |-> <<"Ollama model '">> \o llm_model \o <<"' not found. ">>,
        error |-> << >>]
  ELSE [level |-> "ERROR", msg |-> <<"Ollama API error: ">>,
        error |-> Sanitize[e.msg]]

\* line 207: the record logged when chat fails.
ChatErrorLog(e) ==
  [level |-> "ERROR", msg |-> <<"Ollama API error: ">>,
   error |-> Sanitize[e.msg]]

ErrorLog(e) ==
  IF llm_method = "complete" THEN CompleteErrorLog(e) ELSE ChatErrorLog(e)

\* lines 152 and 195
EmptyWarning ==
  [level |-> "WARNING",
   msg |-> <<"Empty response from Ollama for model ">> \o llm_model,
   error |-> << >>]

\* complete(prompt) or chat(messages) is called on a wrapper of a model.
LlmCall(method, model) ==
  /\ llm_pc = "off"
  /\ llm_pc' = "request"
  /\ llm_method' = method
  /\ llm_model' = model
  /\ UNCHANGED <<llm_response, llm_result, llm_emitted>>
  /\ UNCHANGED <<config, program_cache, calls, pc, locals, startup, pipeline,
                 threads>>

\* lines 132-139 and 181-188: the client returns a response.
ClientReturns(response) ==
  /\ llm_pc = "request"
  /\ llm_pc' = "extract"
  /\ llm_response' = response
  /\ UNCHANGED <<llm_method, llm_model, llm_result, llm_emitted>>
  /\ UNCHANGED <<config, program_cache, calls, pc, locals, startup, pipeline,
                 threads>>

\* lines 156-165 and 206-208: the client raises, the handler logs and
\* re-raises.
ClientRaises(e) ==
  /\ llm_pc = "request"
  /\ llm_pc' = "raised"
  /\ llm_result' = e
  /\ llm_emitted' = <<ErrorLog(e)>>
  /\ UNCHANGED <<llm_method, llm_model, llm_response>>
  /\ UNCHANGED <<config, program_cache, calls, pc, locals, startup, pipeline,
                 threads>>

\* lines 141-155 and 183-198, and the handler when taking the text raises.
ExtractText ==
  /\ llm_pc = "extract"
  /\ \E r \in {IF llm_method = "complete" THEN CompleteText(llm_response)
               ELSE ChatText(llm_response)} :
       /\ llm_result' = r
       /\ llm_pc' = IF r.kind = "CompletionResponse" THEN "returned"
                    ELSE "raised"
       /\ llm_emitted' =
            IF r.kind # "CompletionResponse" THEN <<ErrorLog(r)>>
            ELSE IF r.warned THEN <<EmptyWarning>> ELSE << >>
  /\ UNCHANGED <<llm_method, llm_model, llm_response>>
  /\ UNCHANGED <<config, program_cache, calls, pc, locals, startup, pipeline,
                 threads>>

LlmNext ==
  \/ \E method \in {"complete", "chat"}, model \in Models :
       LlmCall(method, model)
  \/ \E response \in GenerateResponses :
       llm_method = "complete" /\ ClientReturns(response)
  \/ \E response \in ChatResponses :
       llm_method = "chat" /\ ClientReturns(response)
  \/ \E e \in ClientErrors : ClientRaises(e)
  \/ ExtractText

LlmSpec == Loaded /\ [][LlmNext]_vars

(***************************************************************************)
(* The statements checked.  They describe the behaviour in their own       *)
(* terms: what a throttled message is, which exception classes pass the    *)
(* outer handler, what was requested and what reached the caller.          *)
(***************************************************************************)
ThrottleMarkers ==
  {<<"r","a","t","e"," ","l","i","m","i","t">>, <<"4","2","9">>,
   <<"u","s","a","g","e"," ","l","i","m","i","t">>}

\* The message of e, compared case-insensitively, contains a marker.
SaysThrottled(e) == \E m \in ThrottleMarkers : Contains(Lower[e.msg], m)

FallbackConfigured == OPENAI_API_KEY /\ OPENAI_AVAILABLE

\* The first request raised a throttled error while a fallback was available.
ThrottledWithFallback ==
  first_error # None /\ SaysThrottled(first_error) /\ FallbackConfigured

\* The error as the outer handler wraps it.
Wrapped(e) == Error("RuntimeError", <<"Job extraction failed: ">> \o e.msg, e)

PassesUnchanged(e) == e.kind \in {"ValueError", "ValidationError", "RuntimeError"}

\* The construction of the fallback program failed.
FallbackConstructionFailed ==
  first_error # None /\ raised = Wrapped(ConstructionError)

\* The fallback branch (lines 371-420) was entered.
TookFallbackPath ==
  first_error # None
    /\ (pc = "retry" \/ Len(requests) = 2 \/ FallbackConstructionFailed)

\* The retry as the claims describe it: one more request, to a fresh
\* program bound to OpenAI, with the text of the first request.
RetriedOnce ==
  /\ Len(requests) = 2
  /\ requests[2].program = Program("openai", <<calls, 2>>)
  /\ requests[2].program # requests[1].program
  /\ requests[2].input_text = requests[1].input_text

\* C1 as stated: in extract_job_info, when the first request raises an error
\* whose message is throttled and the fallback is configured and available,
\* the invocation ends with the cache discarded and exactly one retry issued
\* to a fresh OpenAI program with the same preprocessed text.
C1_Original ==
  (pc \in Terminal /\ ThrottledWithFallback)
    => (program_cache = None /\ RetriedOnce)

\* C1 as amended: the error is not a schema ValidationError, and the retry
\* is issued when the fallback program could be constructed; if a
\* constructor raises, the cache is discarded all the same, no retry is
\* issued and the constructor's error goes through the outer handler.
C1_FallbackRetry ==
  (ThrottledWithFallback /\ first_error.kind # "ValidationError")
    => /\ program_cache = None
       /\ pc = "retry" =>
            (Len(requests) = 1 /\ program = Program("openai", <<calls, 2>>))
       /\ pc # "retry" =>
            \/ RetriedOnce
            \/ (pc = "failed" /\ Len(requests) = 1 /\ FallbackConstructionFailed)

C1_Witness ==
  pc = "done" /\ ThrottledWithFallback /\ RetriedOnce /\ program_cache = None

\* C2: one invocation issues at most two requests, and a second one only
\* after the first raised a throttled error while a fallback was available.
C2_AtMostOneRetry ==
  /\ Len(requests) <= 2
  /\ Len(requests) = 2 => ThrottledWithFallback

C2_Witness ==
  /\ pc = "failed"
  /\ Len(requests) = 1
  /\ first_error # None
  /\ SaysThrottled(first_error)
  /\ first_error.kind # "ValidationError"
  /\ ~OPENAI_API_KEY

\* C3 as stated: an error raised by the fallback retry reaches the caller
\* unchanged.
C3_Original == retry_error # None => raised = retry_error

\* C3 as amended: no further request follows, and the error reaches the
\* caller unchanged when it is a ValueError or a RuntimeError; any other
\* exception is wrapped in RuntimeError('Job extraction failed: ...') with
\* the original as its cause.
C3_RetryErrorPropagates ==
  retry_error # None
    => /\ pc = "failed"
       /\ returned = None
       /\ Len(requests) = 2
       /\ raised = IF PassesUnchanged(retry_error)
                   THEN retry_error
                   ELSE Wrapped(retry_error)

C3_Witness ==
  /\ retry_error # None
  /\ retry_error.kind = "ValidationError"
  /\ raised = retry_error

IsGeneral(e) == ~PassesUnchanged(e)

C7_Original ==
  (first_error # None /\ FallbackConfigured)
    => (TookFallbackPath <=> SaysThrottled(first_error))

\* C7 as amended: this holds of every error that is not a schema
\* ValidationError; a ValidationError never takes the throttled path,
\* whatever its message.  Without a fallback nothing takes it.
C7_Classification ==
  first_error # None
    => (TookFallbackPath <=>
          /\ SaysThrottled(first_error)
          /\ first_error.kind # "ValidationError"
          /\ FallbackConfigured)

C7_Witness ==
  /\ TookFallbackPath
  /\ first_error.kind = "Exception"
  /\ first_error.msg = <<"U","S","A","G","E"," ","L","I","M","I","T">>

\* company, title and location of a record are all non-empty.
RequiredPresent(r) == Truthy(r.company) /\ Truthy(r.title) /\ Truthy(r.location)

\* The invocation is between its call and its end.
Running == pc \in {"select", "preprocess", "extract", "retry", "normalize"}

\* How far an invocation has come.
Rank(p) ==
  CASE p = "idle" -> 0
    [] p = "select" -> 1
    [] p = "preprocess" -> 2
    [] p = "extract" -> 3
    [] p = "retry" -> 4
    [] p = "normalize" -> 5
    [] OTHER -> 6

\* C8: every invocation ends, in exactly one of DONE (a JobInfo is returned)
\* and FAILED (an error is raised), and every step before that brings it
\* nearer to its end.  DONE follows a request that succeeded, the first one
\* or the fallback one after a throttled first one, and a passed
\* required-field check; after either end nothing happens but the next
\* invocation: no further request, no further normalisation.
C8_TerminalOutcomes ==
  /\ [](pc = "done" =>
          /\ returned # None /\ raised = None
          /\ extracted # None /\ returned = result /\ RequiredPresent(returned)
          /\ \/ (Len(requests) = 1 /\ first_error = None)
             \/ (Len(requests) = 2 /\ ThrottledWithFallback)
          /\ retry_error = None)
  /\ [](pc = "failed" => (raised # None /\ returned = None))
  /\ [](Running => (raised = None /\ returned = None))
  /\ [][Running => (Rank(pc') > Rank(pc) /\ calls' = calls)]_vars
  /\ [][(pc \in Terminal) => (calls' = calls + 1)]_vars
  /\ Running ~> (pc \in Terminal)

C8_Witness ==
  /\ pc = "done"
  /\ Len(requests) = 2
  /\ retry_error = None
  /\ RequiredPresent(returned)

\* C9: a returned JobInfo has company, title and location non-empty; when
\* one of them is empty in what the program returned, the invocation raises
\* ValueError('Extraction failed: missing required fields ...') and returns
\* no record.
C9_RequiredFields ==
  /\ pc = "done" => RequiredPresent(returned)
  /\ (pc \in Terminal /\ extracted # None /\ ~RequiredPresent(extracted))
       => /\ pc = "failed"
          /\ returned = None
          /\ raised.kind = "ValueError"
          /\ Head(raised.msg) = "Extraction failed: missing required fields. "
          /\ raised.cause = None

C9_Witness ==
  /\ pc = "failed"
  /\ extracted # None
  /\ Truthy(extracted.company)
  /\ Truthy(extracted.title)
  /\ ~Truthy(extracted.location)
  /\ raised.kind = "ValueError"

\* C10: in a returned JobInfo each of level, remote_type and ats is a member
\* of its enumeration or None, whatever string (the empty string included)
\* the program produced for it.
C10_EnumFieldsValid ==
  pc = "done"
    => /\ returned.level \in Members("JobLevel", JobLevel) \cup {None}
       /\ returned.remote_type \in Members("RemoteType", RemoteType) \cup {None}
       /\ returned.ats \in Members("AtsType", AtsType) \cup {None}

\* The class names as the dotted form spells them.
JobLevelPrefix == <<"J","o","b","L","e","v","e","l">>

RemoteTypePrefix == <<"R","e","m","o","t","e","T","y","p","e">>

AtsTypePrefix == <<"A","t","s","T","y","p","e">>

\* The string forms of member m: its value, its name in upper and in lower
\* case, and its dotted form behind the class name.
EnumForms(prefix, m) ==
  {m.value, m.name, Lower[m.name], prefix \o <<".">> \o m.name}

\* v is a string form of member i of the enumeration.
IsFormOf(v, prefix, enum, i) ==
  IsStr(v) /\ v.s \in EnumForms(prefix, enum[i])

\* C11: a returned record whose extracted level, remote_type or ats was a
\* string form of a member (value, name in upper or lower case, dotted
\* 'EnumName.MEMBER') carries that member in the field.
C11_EnumCoercion ==
  pc = "done"
    => /\ \A i \in DOMAIN JobLevel :
            IsFormOf(extracted.level, JobLevelPrefix, JobLevel, i)
              => returned.level = Member("JobLevel", JobLevel[i])
       /\ \A i \in DOMAIN RemoteType :
            IsFormOf(extracted.remote_type, RemoteTypePrefix, RemoteType, i)
              => returned.remote_type = Member("RemoteType", RemoteType[i])
       /\ \A i \in DOMAIN AtsType :
            IsFormOf(extracted.ats, AtsTypePrefix, AtsType, i)
              => returned.ats = Member("AtsType", AtsType[i])

\* v is a string that is no form of any member, in any letter case and
\* with white space around it ignored.
Unmatched(v, prefix, enum) ==
  /\ IsStr(v)
  /\ \A i \in DOMAIN enum :
       \A f \in EnumForms(prefix, enum[i]) : Lower[Strip[v.s]] # Lower[f]

\* C12: when the program's result has company, title and location and a
\* string that matches no member in an enum field, the invocation returns a
\* record, with None in that field.
C12_UnmatchedEnumAbsent ==
  (pc \in Terminal /\ extracted # None /\ RequiredPresent(extracted))
    => /\ pc = "done"
       /\ Unmatched(extracted.level, JobLevelPrefix, JobLevel)
            => returned.level = None
       /\ Unmatched(extracted.remote_type, RemoteTypePrefix, RemoteType)
            => returned.remote_type = None
       /\ Unmatched(extracted.ats, AtsTypePrefix, AtsType)
            => returned.ats = None

\* The extracted url is absent, empty or 'unknown' in some letter case.
IsPlaceholderUrl(v) ==
  \/ v = None
  \/ v.s = << >>
  \/ Lower[v.s] = <<"u","n","k","n","o","w","n">>

\* C13: the url of a returned record is the caller's url when the extracted
\* url is empty or 'unknown' in any letter case, and the extracted url,
\* unchanged, otherwise.
C13_UrlResolution ==
  pc = "done"
    => returned.url = IF IsPlaceholderUrl(extracted.url)
                      THEN url
                      ELSE extracted.url

C13_Witness ==
  /\ pc = "done"
  /\ extracted.url = Str(<<"U","N","K","N","O","W","N">>)
  /\ url = Str(<<"h","t","t","p","s",":","/","/","x","/","1">>)
  /\ returned.url = url

\* C14: the url of a returned record is a non-empty string, whatever url
\* the caller supplied and whatever url was extracted.
C14_UrlNonEmpty ==
  pc = "done" => (IsStr(returned.url) /\ returned.url.s # << >>)

\* An already valid result: enum fields hold members or None, the url is a
\* real one, company, title and location are non-empty.
IsValidResult(r) ==
  /\ r.level \in Members("JobLevel", JobLevel) \cup {None}
  /\ r.remote_type \in Members("RemoteType", RemoteType) \cup {None}
  /\ r.ats \in Members("AtsType", AtsType) \cup {None}
  /\ ~IsPlaceholderUrl(r.url)
  /\ RequiredPresent(r)

\* C15: when the program returns an already valid result the invocation
\* returns it with every field as it was, and normalizing the returned
\* record once more changes nothing.
C15_NormalizeNoOp ==
  (pc \in Terminal /\ extracted # None /\ IsValidResult(extracted))
    => /\ pc = "done"
       /\ returned = extracted
       /\ Normalize(returned, url) = returned

C15_Witness ==
  /\ pc = "done"
  /\ IsValidResult(extracted)
  /\ extracted.level = Member("JobLevel", JobLevel[1])
  /\ extracted.url # url
  /\ returned = extracted

\* The text is empty or white space only.
IsBlank(t) == \A i \in DOMAIN t : IsSpace(t[i])

\* C16: an invocation with empty or white-space-only text ends at once
\* with ValueError('Text input cannot be empty'): no program is selected or
\* constructed, no request is issued, and the call leaves the program
\* cache as it found it.
C16_EmptyInputRejected ==
  /\ []((calls > 0 /\ IsBlank(text))
          => /\ pc = "failed"
             /\ raised = Error("ValueError", <<"Text input cannot be empty">>, None)
             /\ returned = None
             /\ program = None
             /\ requests = << >>)
  /\ [][(calls' = calls + 1 /\ IsBlank(text'))
          => (pc' = "failed" /\ program_cache' = program_cache)]_vars

C16_Witness ==
  /\ pc = "failed"
  /\ text = <<" ">>
  /\ calls = 2
  /\ program_cache # None

\* C17: a prepared text that is empty after trimming ends the invocation
\* at preprocessing, also when it is what is left of an HTML input: the
\* invocation never goes on past preprocessing with such a text, and no
\* request carries one.
C17_EmptyPreparedRejected ==
  /\ \A i \in DOMAIN requests : ~IsBlank(requests[i].input_text)
  /\ pc \in {"extract", "retry", "normalize", "done"}
       => ~IsBlank(text_for_extraction)

\* t contains '<html' or '<body' in some letter case.
MentionsHtml(t) ==
  \E i \in DOMAIN t : Lower[<<t[i]>>] \in {<<"<html>">>, <<"<body>">>}

\* The text the budget is applied to: the visible text of an HTML input,
\* the input itself otherwise.
TextToExtract ==
  IF MentionsHtml(text)
  THEN GetText(text)
  ELSE text

EndsWithMarker(t) ==
  /\ Len(t) >= Len(TruncationMarker)
  /\ SubSeq(t, Len(t) - Len(TruncationMarker) + 1, Len(t)) = TruncationMarker

\* C18: with budget B, a text to extract longer than B is sent as its
\* first B characters followed by the truncation marker, B plus the
\* marker's length in all; a text not longer than B is sent uncut and
\* without marker.  On the HTML path and on the plain-text path.
C18_LengthBudget ==
  pc = "extract"
    => IF Len(TextToExtract) > budget
       THEN /\ text_for_extraction
                 = SubSeq(TextToExtract, 1, budget) \o TruncationMarker
            /\ Len(text_for_extraction) = budget + Len(TruncationMarker)
            /\ EndsWithMarker(text_for_extraction)
       ELSE /\ text_for_extraction \in {TextToExtract, Strip[TextToExtract]}
            /\ ~EndsWithMarker(text_for_extraction)

C18_Witness ==
  /\ pc = "extract"
  /\ budget = 1
  /\ text = <<"<HTML>", "a", "a">>
  /\ text_for_extraction = <<"a">> \o TruncationMarker

\* r is t without its leading and trailing white space.
IsTrimOf(r, t) ==
  \E i \in 0..Len(t) :
    /\ i + Len(r) <= Len(t)
    /\ SubSeq(t, i + 1, i + Len(r)) = r
    /\ \A k \in 1..i : IsSpace(t[k])
    /\ \A k \in (i + Len(r) + 1)..Len(t) : IsSpace(t[k])
    /\ r # << >> => (~IsSpace(r[1]) /\ ~IsSpace(r[Len(r)]))

\* C19: the text handed to the program is the cleaned HTML exactly when
\* the input contains '<html' or '<body' in any letter case; any other
\* input (within the budget) is handed over as it is, without its leading
\* and trailing white space.
C19_PreprocessRouting ==
  /\ \A i \in DOMAIN requests : requests[i].input_text = text_for_extraction
  /\ pc \in {"extract", "retry", "normalize", "done"}
       => IF MentionsHtml(text)
          THEN text_for_extraction = CleanAndTruncateHtml(text, budget)
          ELSE IsTrimOf(text_for_extraction, text)

C19_Witness ==
  /\ Len(requests) = 1
  /\ text = <<" ", "<p>", "a", " ">>
  /\ requests[1].input_text = <<"<p>", "a">>

\* C20: once get_job_info_program has succeeded its program stays in the
\* cache, and a later call returns that very instance without selecting a
\* provider or constructing anything (so it cannot fail); only the
\* fallback after a throttled request empties the cache.  Extractions
\* without throttling therefore all use the one cached instance.
C20_ProgramCached ==
  /\ []((requests # << >> /\ ~TookFallbackPath)
          => program_cache = requests[1].program)
  /\ [][(pc = "select" /\ program_cache # None)
          => /\ pc' = "preprocess"
             /\ program' = program_cache
             /\ program_cache' = program_cache]_vars
  /\ [][(program_cache # None /\ program_cache' # program_cache)
          => /\ pc = "extract"
             /\ program_cache' = None
             /\ first_error' # None
             /\ SaysThrottled(first_error')
             /\ FallbackConfigured]_vars

C20_Witness ==
  /\ calls = 2
  /\ pc = "done"
  /\ Len(requests) = 1
  /\ requests[1].program = Program("ollama", <<1, 1>>)
  /\ program_cache = requests[1].program

\* The constructor ctor was called, and it was called and succeeded, among
\* the constructor calls made.
Tried(made, ctor) == \E i \in DOMAIN made : made[i].ctor = ctor

Succeeded(made, ctor) == \E i \in DOMAIN made : made[i] = Attempt(ctor, TRUE)

\* C21: when get_job_info_program comes to select a provider (empty cache,
\* preconditions met), the primary client is constructed only if its
\* credential is present and its implementation available, and the program
\* is bound to the primary exactly when that construction succeeded (the
\* fallback is then not constructed).  When it was not attempted or failed,
\* the call goes on to the fallback: with the fallback credential (and
\* implementation) the fallback client is constructed and a program is
\* bound to it exactly when that succeeded; without, the call fails with an
\* error, no program is produced and the cache stays empty.
C21_ProviderSelection ==
  [][(/\ pc = "select"
      /\ program_cache = None
      /\ STRUCTURED_PROGRAM_AVAILABLE
      /\ OLLAMA_API_KEY \/ OPENAI_API_KEY)
      => /\ Tried(constructions', "OllamaCloudLLM")
              => (OLLAMA_API_KEY /\ OLLAMA_AVAILABLE)
         /\ Succeeded(constructions', "OllamaCloudLLM")
              => ~Tried(constructions', "OpenAI")
         /\ pc' = "preprocess"
              => /\ program'.provider = "ollama"
                      <=> Succeeded(constructions', "OllamaCloudLLM")
                 /\ program'.provider = "openai"
                      <=> Succeeded(constructions', "OpenAI")
         /\ ~Succeeded(constructions', "OllamaCloudLLM")
              => IF OPENAI_API_KEY /\ OPENAI_AVAILABLE
                 THEN Tried(constructions', "OpenAI")
                 ELSE /\ ~Tried(constructions', "OpenAI")
                      /\ pc' = "failed"
                      /\ raised' # None
                      /\ program' = None
                      /\ program_cache' = None
         /\ pc' = "failed" => (program' = None /\ program_cache' = None)]_vars

C21_Witness ==
  /\ pc = "preprocess"
  /\ constructions = <<Attempt("OllamaCloudLLM", FALSE), Attempt("OpenAI", TRUE)>>
  /\ program.provider = "openai"
  /\ program_cache = program

\* C22: with neither OLLAMA_API_KEY nor OPENAI_API_KEY set, no LLM client
\* is ever constructed and no request is ever sent to an LLM provider, at
\* import or later, and an invocation (with text, the structured program
\* importable) ends with the ValueError of validate_config.
C22_NoCredentialFailsFirst ==
  (~OLLAMA_API_KEY /\ ~OPENAI_API_KEY)
    => /\ startup = << >>
       /\ constructions = << >>
       /\ requests = << >>
       /\ pc # "import_failed"
       /\ (pc \in Terminal /\ ~IsBlank(text) /\ STRUCTURED_PROGRAM_AVAILABLE)
            => /\ pc = "failed"
               /\ raised.kind = "ValueError"
               /\ Head(raised.msg) = "At least one LLM API key is required.\n"

\* C23: with the structured program not importable the cache is always
\* empty, and an invocation that comes to get_job_info_program fails there
\* with ImportError('LlamaIndex structured program not available ...'),
\* which extract_job_info hands on as the cause of its RuntimeError: also
\* when no credential is configured (validate_config is not reached), and
\* with no LLM client constructed and no request issued.
C23_StructuredUnavailable ==
  ~STRUCTURED_PROGRAM_AVAILABLE
    => /\ program_cache = None
       /\ (calls > 0 /\ ~IsBlank(text) /\ pc # "select")
            => /\ pc = "failed"
               /\ program = None
               /\ constructions = << >>
               /\ requests = << >>
               /\ raised.cause # None
               /\ raised.cause.kind = "ImportError"
               /\ Head(raised.cause.msg)
                    = "LlamaIndex structured program not available. "
               /\ raised = Wrapped(raised.cause)

C23_Witness ==
  /\ ~STRUCTURED_PROGRAM_AVAILABLE
  /\ ~OLLAMA_API_KEY
  /\ ~OPENAI_API_KEY
  /\ pc = "failed"
  /\ text = <<"a">>
  /\ raised.cause # None
  /\ raised.cause.kind = "ImportError"

\* C24: the retry after a throttled error goes to a program bound to
\* another provider than the program whose request was throttled, also
\* when that program was bound to the fallback provider already.
C24_RetrySwitchesProvider ==
  /\ pc = "retry" => program.provider # requests[1].program.provider
  /\ Len(requests) = 2
       => requests[2].program.provider # requests[1].program.provider

\* The operations repeated after a failure in one run of the pipeline:
\* page.goto calls, extraction requests and append attempts beyond the first.
Repeated(n) == IF n > 1 THEN n - 1 ELSE 0

Retries == Repeated(Len(gotos)) + Repeated(Len(requests)) + Repeated(Len(executes))

\* C25 as stated: one run of the pipeline repeats at most one failed
\* operation, the extraction request.
C25_Original ==
  /\ Retries <= 1
  /\ Len(gotos) <= 1
  /\ Len(executes) <= 1

\* What the n-th append attempt raised can be answered by another attempt.
Retryable(n) ==
  /\ executes[n].tag = "raise"
  /\ \/ executes[n].error.kind # "HttpError"
     \/ executes[n].error.status \in {"429", "403"}

\* C25: in one run of the pipeline the extraction request is repeated at
\* most once, after a throttled error; page.goto is repeated at most once,
\* after a timeout of the first; the append is repeated at most MAX_RETRIES
\* times, each time after a 429 or 403 or an error that is no HttpError;
\* every other error ends its call with no further attempt.
C25_BoundedRetries ==
  /\ Len(requests) <= 2
  /\ Len(requests) = 2 => SaysThrottled(first_error)
  /\ Len(gotos) <= 2
  /\ Len(gotos) = 2 => /\ gotos[1].outcome.tag = "raise"
                       /\ gotos[1].outcome.error.kind = "PlaywrightTimeoutError"
  /\ agent_pc = "fetch" => Len(gotos) <= 1
  /\ Len(executes) <= MAX_RETRIES + 1
  /\ retry_count = Repeated(Len(executes))
                     + (IF sheet_pc = "append" /\ executes # << >> THEN 1 ELSE 0)
  /\ \A n \in 1..(Len(executes) - 1) : Retryable(n)
  /\ sheet_pc = "append" => \A n \in DOMAIN executes : Retryable(n)

\* A run that repeated the page load, the extraction request and the append.
C25_Witness ==
  /\ agent_pc = "failed"
  /\ Len(gotos) = 2
  /\ Len(requests) = 2
  /\ Len(executes) = MAX_RETRIES + 1
  /\ retry_count = MAX_RETRIES

\* The columns of the tracker sheet, left to right.
Columns ==
  <<"company", "contact_person", "title", "location", "salary", "url",
    "date_applied", "date_confirmation", "date_latest_reply", "status",
    "reason_outcome", "level", "remote_type", "ats">>

\* A field that is set: neither None nor the empty string.
Present(v) == v # None /\ v # Str(<< >>)

\* The text of a field that is set: the string, or the value of the member.
TextOf(v) == IF v.tag = "enum" THEN v.value ELSE v.s

\* C28: log_job_to_sheet calls worksheet.append_row once, with 14 values;
\* the i-th value is the text of the i-th column's field when that field is
\* set, for an enum field the lowercase value of its member.
C28_RowOrder ==
  /\ sheet_pc = "off" => appended = << >>
  /\ sheet_pc # "off" =>
       /\ Len(appended) = 1
       /\ appended[1].value_input_option = "USER_ENTERED"
       /\ Len(appended[1].values) = 14
       /\ \A i \in 1..14 :
            Present(job[Columns[i]])
              => /\ appended[1].values[i] = TextOf(job[Columns[i]])
                 /\ job[Columns[i]].tag = "enum"
                      => appended[1].values[i] = Lower[appended[1].values[i]]

\* log_job_to_sheet has returned for a job with every field set.
C28_Witness ==
  /\ sheet_pc = "done"
  /\ job = FullJob
  /\ Len(executes) > 1

\* The text written for a field that is not set.
DefaultOf(column, day) ==
  CASE column = "date_applied" -> day
    [] column = "status" -> <<"t","o","_","a","p","p","l","y">>
    [] column = "ats" -> <<"u","n","k","n","o","w","n">>
    [] OTHER -> << >>

CarriesRedacted(rec) ==
  /\ Contains(rec.msg, Sanitize[rec.error])
  /\ Sanitize[rec.error] # rec.error => ~Contains(rec.msg, rec.error)

\* C27: every record logged at a failure point of the pipeline carries the
\* error's text after the redaction function was applied to it, never
\* the raw text.
C27_LogsRedacted ==
  /\ \A n \in DOMAIN emitted : CarriesRedacted(emitted[n])
  /\ \A n \in DOMAIN pipeline_emitted : CarriesRedacted(pipeline_emitted[n])

\* The way the invocation that has failed did fail, in the terms of the
\* claim; "other" for the failures it does not list.
FailureMode ==
  IF IsBlank(text) THEN "empty input"
  ELSE IF requests = << >>
  THEN IF ~STRUCTURED_PROGRAM_AVAILABLE THEN "integration failure"
       ELSE IF ~OLLAMA_API_KEY /\ ~OPENAI_API_KEY THEN "missing credential"
       ELSE IF constructions # << >> /\ ~constructions[Len(constructions)].ok
       THEN "unusable credential"
       ELSE "other"
  ELSE IF extracted # None THEN "incomplete extraction"
  ELSE IF retry_error # None THEN "provider failure"
  ELSE IF first_error.kind = "ValidationError" THEN "other"
  ELSE IF ~SaysThrottled(first_error) THEN "provider failure"
  ELSE IF ~FallbackConfigured THEN "throttling without fallback"
  ELSE "other"

\* The failure every unexpected exception is converted into.
IsGenericFailure(e) ==
  /\ e.kind = "RuntimeError"
  /\ e.msg[1] = "Job extraction failed: "

\* C26 as stated: a failure of a listed mode is not converted into the
\* generic failure, and two failures of different modes differ in kind
\* (compared where one invocation fails right after another has).
C26_Original ==
  [][pc' = "failed" /\ FailureMode' # "other"
       => /\ ~IsGenericFailure(raised')
          /\ pc = "failed" /\ FailureMode \notin {"other", FailureMode'}
               => raised.kind # raised'.kind]_vars

\* The error of the provider that ended the invocation.
ProviderError == IF retry_error # None THEN retry_error ELSE first_error

\* C26: every failure of extract_job_info reaches the caller as a
\* ValueError (or its subclass ValidationError) or a RuntimeError, none is
\* swallowed, and the failure modes
\* differ in message and cause, not in kind: ValueError for empty input,
\* for no credential and for an incomplete extraction; the generic
\* RuntimeError('Job extraction failed: ...') with the original as its cause
\* for the ImportError of the missing integration and for a provider or
\* throttling error that is neither ValueError nor RuntimeError (which pass
\* as they are); for a failed constructor what get_job_info_program raises.
C26_FailureKinds ==
  pc = "failed" =>
    /\ raised # None
    /\ returned = None
    /\ IsInstance(raised.kind, "ValueError") \/ raised.kind = "RuntimeError"
    /\ FailureMode = "empty input"
         => raised = Error("ValueError", <<"Text input cannot be empty">>, None)
    /\ FailureMode = "integration failure"
         => /\ IsGenericFailure(raised)
            /\ raised.cause.kind = "ImportError"
    /\ FailureMode = "missing credential"
         => /\ raised.kind = "ValueError"
            /\ raised.msg[1] = "At least one LLM API key is required.\n"
    /\ FailureMode = "unusable credential"
         => IF constructions[Len(constructions)].ctor = "OpenAI"
            THEN /\ raised.kind = "RuntimeError"
                 /\ raised.msg[1] = "Failed to initialize OpenAI LLM: "
            ELSE IF ~OPENAI_AVAILABLE
            THEN IsGenericFailure(raised) /\ raised.cause.kind = "ImportError"
            ELSE /\ raised.kind = "ValueError"
                 /\ raised.msg[1] = "Ollama LLM failed or not configured, and OPENAI_API_KEY is not set. "
    /\ FailureMode = "incomplete extraction"
         => /\ raised.kind = "ValueError"
            /\ raised.msg[1] = "Extraction failed: missing required fields. "
    /\ FailureMode \in {"provider failure", "throttling without fallback"}
         => raised = IF IsGeneral(ProviderError) THEN Wrapped(ProviderError)
                     ELSE ProviderError

\* An incomplete extraction has reached the caller with the kind of an
\* empty input, and a throttled error with no fallback as the generic failure.
C26_Witness ==
  /\ pc = "failed"
  /\ \/ FailureMode = "incomplete extraction" /\ raised.kind = "ValueError"
     \/ FailureMode = "throttling without fallback" /\ IsGenericFailure(raised)

\* The threads between the test of the cache and the store of the program.
InCriticalSection == {t \in Threads : thread_pc[t] \in {"construct", "store"}}

\* C30: the test of the cache, the construction and the store exclude one
\* another between threads: no two threads are between the test and the
\* store at once, at most one program is constructed, and the threads that
\* have returned hold the same program.
C30_CacheMutualExclusion ==
  /\ Cardinality(InCriticalSection) <= 1
  /\ Cardinality({t \in Threads : thread_built[t] # None}) <= 1
  /\ \A t, u \in Threads :
       thread_pc[t] = "returned" /\ thread_pc[u] = "returned"
         => thread_result[t] = thread_result[u]

\* The text a response carries for the method called: the response
\* attribute or key for complete, the content of the message for chat, the
\* value itself when the response is neither an object nor a dict.  An
\* object that lacks the attribute altogether is of the other shape, and
\* its text is what str() makes of it.
HasShape(response, name) ==
  \/ response.tag = "dict"
  \/ response.tag = "object" /\ response[name] # Missing

BodyOf(method, response) ==
  IF method = "complete"
  THEN IF HasShape(response, "response") THEN response.response
       ELSE ResponseStr(response)
  ELSE IF HasShape(response, "message")
       THEN IF response.message \in {Missing, None} THEN Missing
            ELSE response.message.content
       ELSE ResponseStr(response)

IsEmptyBody(method, response) ==
  \/ response \in {None, Str(<< >>)}
  \/ BodyOf(method, response) \in {Missing, None, Str(<< >>)}

\* C31: an empty response body is not an error: whenever the client returned
\* a response whose text is missing, None or empty, in whichever shape,
\* complete and chat return a completion whose text is the empty string.
C31_EmptyResponse ==
  /\ llm_pc \in {"returned", "raised"}
  /\ llm_response # Missing
  /\ IsEmptyBody(llm_method, llm_response)
  => /\ llm_pc = "returned"
     /\ llm_result.text = Str(<< >>)

\* The last page.goto of the fetch returned the page.
FetchSucceeded ==
  gotos # << >> /\ gotos[Len(gotos)].outcome.tag = "ok"

\* The last page.goto of the fetch raised and no other follows it.
FetchFailed ==
  /\ gotos # << >>
  /\ gotos[Len(gotos)].outcome.tag = "raise"
  /\ agent_pc # "fetch"

\* C32: run_scout_agent fetches, extracts and logs in that order.  The
\* extraction is called only with the page of a fetch that succeeded, the
\* sheet is written only with the job of an extraction that succeeded and
\* only for a worksheet, the JobInfo is returned only after every step made
\* succeeded, and a step that fails leaves the later steps unmade and
\* reaches the caller as a RuntimeError whose cause is the step's error.
C32_PipelineOrder ==
  /\ calls > 0 =>
       /\ FetchSucceeded /\ text = html_content
       /\ agent_pc \notin {"off", "fetch", "extract"}
  /\ sheet_pc # "off" =>
       /\ calls > 0 /\ pc = "done" /\ job = returned
       /\ worksheet # None
       /\ agent_pc \in {"logging", "done", "failed"}
  /\ executes # << >> => sheet_pc # "off"
  /\ agent_pc = "done" =>
       /\ FetchSucceeded /\ pc = "done"
       /\ agent_returned = returned /\ agent_returned # None
       /\ worksheet # None => sheet_pc = "done"
       /\ worksheet = None => sheet_pc = "off"
       /\ agent_raised = None
  /\ agent_returned # None => agent_pc = "done"
  /\ agent_pc = "failed" =>
       /\ agent_returned = None
       /\ agent_raised.kind = "RuntimeError"
       /\ \/ FetchFailed /\ calls = 0 /\ sheet_pc = "off"
               /\ agent_raised.cause = gotos[Len(gotos)].outcome.error
          \/ FetchSucceeded /\ pc = "failed" /\ sheet_pc = "off"
               /\ agent_raised.cause = raised
          \/ FetchSucceeded /\ pc = "done" /\ sheet_pc = "failed"
               /\ agent_raised.cause = sheet_raised
  /\ FetchFailed => agent_pc = "failed"
  /\ agent_raised # None => agent_pc = "failed"

\* A run with a worksheet that fetched, extracted, appended the row and
\* returned the job.
C32_Witness ==
  /\ agent_pc = "done"
  /\ worksheet # None
  /\ executes # << >>
  /\ agent_returned = returned

\* A run whose extraction failed after the fetch: the sheet is not written.
C32_FailureWitness ==
  agent_pc = "failed" /\ FetchSucceeded /\ pc = "failed" /\ worksheet # None

\* Every append request made so far failed with a rate-limit or quota error.
AllRateLimited ==
  /\ executes # << >>
  /\ \A i \in DOMAIN executes :
       executes[i].tag = "raise" /\ IsQuotaError(executes[i].error)

\* The error _append_with_retry raised: log_job_to_sheet wraps it at lines
\* 331-333 and keeps it as the cause.
AppendRaised == sheet_raised.cause

\* C33: when every append request fails with a rate-limit error, the call of
\* _append_with_retry ends, once the retries are used up, by raising
\* HttpError.
C33_RateLimitExhausted ==
  sheet_pc = "failed" /\ AllRateLimited
  => /\ Len(executes) = MAX_RETRIES + 1
     /\ AppendRaised.kind = "HttpError"

\* The outcome of the n-th page.goto is a timeout.
TimedOut(n) ==
  /\ gotos[n].outcome.tag = "raise"
  /\ gotos[n].outcome.error.kind = "PlaywrightTimeoutError"

\* fetch_job_page has returned or raised.
FetchOver == gotos # << >> /\ agent_pc # "fetch"

\* C34: fetch_job_page navigates at most twice, first waiting for network
\* idle and then, only after a timeout of the first navigation, waiting for
\* the DOM content.  A first navigation that succeeds is the only one, a
\* timeout of the second navigation is the error the caller receives, and
\* any other error of the first navigation is raised with no second
\* navigation.
C34_FetchStrategy ==
  /\ Len(gotos) <= 2
  /\ gotos # << >> => gotos[1].wait_until = "networkidle"
  /\ Len(gotos) = 2 =>
       gotos[2].wait_until = "domcontentloaded" /\ TimedOut(1)
  /\ FetchOver /\ TimedOut(1) => Len(gotos) = 2
  /\ FetchOver /\ gotos[Len(gotos)].outcome.tag = "ok" =>
       html_content = gotos[Len(gotos)].outcome.content
  /\ Len(gotos) = 2 /\ TimedOut(2) =>
       /\ agent_pc = "failed"
       /\ agent_raised.cause = gotos[2].outcome.error
       /\ agent_raised.cause.kind = "PlaywrightTimeoutError"
  /\ gotos # << >> /\ gotos[1].outcome.tag = "raise" /\ ~TimedOut(1) =>
       /\ Len(gotos) = 1
       /\ agent_pc = "failed"
       /\ agent_raised.cause = gotos[1].outcome.error

\* Both navigations timed out and the caller received the second timeout.
C34_Witness ==
  Len(gotos) = 2 /\ TimedOut(1) /\ TimedOut(2) /\ agent_pc = "failed"

\* The first navigation timed out and the second returned the page.
C34_FallbackWitness ==
  /\ Len(gotos) = 2 /\ TimedOut(1) /\ gotos[2].outcome.tag = "ok"
  /\ agent_pc = "extract"

\* The first navigation failed with another error.
C34_ErrorWitness ==
  /\ Len(gotos) = 1 /\ gotos[1].outcome.tag = "raise" /\ ~TimedOut(1)
  /\ agent_pc = "failed"

\* The request of index i failed with an error that is not an HttpError.
Unexpected(i) ==
  executes[i].tag = "raise" /\ executes[i].error.kind # "HttpError"

\* The request of index i failed with a rate-limit or quota error.
RateLimited(i) ==
  executes[i].tag = "raise" /\ IsQuotaError(executes[i].error)

\* C35: whatever the failures, one call of _append_with_retry issues at most
\* MAX_RETRIES + 1 = 4 append requests; rate-limit errors and unexpected
\* errors are counted by the same retry counter, which goes up by one with
\* every request repeated and never down; and the call always ends, by
\* returning after a request that succeeded or by raising an error.
C35_AppendTerminates ==
  /\ [](/\ Len(executes) <= MAX_RETRIES + 1
        /\ retry_count <= MAX_RETRIES
        /\ sheet_pc = "append" => Len(executes) = retry_count
        /\ sheet_pc \in {"done", "failed"} /\ executes # << >> =>
             Len(executes) = retry_count + 1
        /\ \A i \in DOMAIN executes :
             i < Len(executes) => Unexpected(i) \/ RateLimited(i)
        /\ sheet_pc = "done" => executes[Len(executes)].tag = "ok"
        /\ sheet_pc = "failed" => sheet_raised # None)
  /\ [][retry_count' \in {retry_count, retry_count + 1}]_vars
  /\ (sheet_pc = "append") ~> (sheet_pc \in {"done", "failed"})

\* Four requests were made, the failures were of both kinds, and the call
\* raised.
C35_Witness ==
  /\ sheet_pc = "failed"
  /\ Len(executes) = MAX_RETRIES + 1
  /\ \E i, k \in DOMAIN executes : Unexpected(i) /\ RateLimited(k)

\* The request of index i failed with an HTTP error whose status is neither
\* 429 nor 403.
OtherHttpError(i) ==
  /\ executes[i].tag = "raise"
  /\ executes[i].error.kind = "HttpError"
  /\ executes[i].error.status \notin {"429", "403"}

\* The class _append_with_retry raises for an HTTP error of a status.
RaisedFor(status) ==
  IF status \in {"401", "404"} THEN "ValueError" ELSE "RuntimeError"

\* C36: an HTTP error whose status is not 429 or 403 is never retried, at
\* whatever retry depth it arrives: the request that failed with it is the
\* last one issued, and the call raises ValueError for 401 and 404 and
\* RuntimeError for any other status.
C36_NoRetryOnHttpError ==
  \A i \in DOMAIN executes :
    OtherHttpError(i) =>
      /\ i = Len(executes)
      /\ retry_count = i - 1
      /\ sheet_pc = "failed"
      /\ AppendRaised.kind = RaisedFor(executes[i].error.status)
      /\ AppendRaised.cause.msg = executes[i].error.msg

\* A 401 arriving at retry depth two, after a rate-limit error and an
\* unexpected error.
C36_Witness ==
  /\ Len(executes) = 3
  /\ RateLimited(1) /\ Unexpected(2)
  /\ OtherHttpError(3) /\ executes[3].error.status = "401"
  /\ sheet_pc = "failed"

\* A 500 arriving at the first request.
C36_ServerErrorWitness ==
  /\ Len(executes) = 1
  /\ OtherHttpError(1) /\ executes[1].error.status = "500"
  /\ sheet_pc = "failed"

\* The program was constructed by get_job_info_program: the fallback branch
\* of extract_job_info builds the second program of an invocation.
BuiltBySelection(p) == p.tag = "program" /\ p.id[2] = 1

\* C37: once an invocation of extract_job_info has taken the throttle
\* fallback, the cache is empty, whether the retry succeeded or failed, and
\* the fallback program is never the one cached; the next invocation finds
\* the cache empty and gets a program selected and constructed anew.  On
\* every other path the cache stays as get_job_info_program left it.
C37_FallbackClearsCache ==
  /\ [](/\ TookFallbackPath => program_cache = None
        /\ program_cache # None => BuiltBySelection(program_cache)
        /\ program # None /\ ~TookFallbackPath => program_cache = program)
  /\ [][/\ program_cache' # program_cache =>
             \/ pc = "select" /\ program_cache = None
                  /\ program_cache' = program'
             \/ pc = "extract" /\ TookFallbackPath' /\ program_cache' = None
        /\ pc = "select" /\ program_cache = None /\ pc' = "preprocess" =>
             /\ program' = Program(program'.provider, <<calls, 1>>)
             /\ constructions' # << >>]_vars

\* The fallback retry returned a record and the cache is empty.
C37_Witness ==
  /\ TookFallbackPath
  /\ pc = "done"
  /\ Len(requests) = 2
  /\ program = Program("openai", <<calls, 2>>)
  /\ program_cache = None

\* The fallback retry failed and the cache is empty.
C37_FailedWitness ==
  TookFallbackPath /\ pc = "failed" /\ retry_error # None
    /\ program_cache = None

\* The second invocation, after a first that emptied the cache, holds a
\* program of its own.
C37_NextWitness ==
  calls = 2 /\ program = Program("ollama", <<2, 1>>) /\ program_cache = program

\* The constructor of the LLM client a cached program is bound to.
ClientOf(p) == IF p.provider = "ollama" THEN "OllamaCloudLLM" ELSE "OpenAI"

\* get_job_info_program raised in this invocation: no request was made.
SelectionFailed ==
  pc = "failed" /\ calls > 0 /\ ~IsEmptyInput(text) /\ requests = << >>
    /\ first_error = None

\* C38: a call of get_job_info_program that fails, whichever check or
\* construction fails, leaves the cache empty; the cache only ever goes from
\* empty to a program that get_job_info_program constructed to the end, on
\* an LLM client whose constructor succeeded.
C38_CacheEmptyOrComplete ==
  /\ [](/\ program_cache # None =>
             /\ BuiltBySelection(program_cache)
             /\ program_cache.provider \in {"ollama", "openai"}
        /\ SelectionFailed => program_cache = None)
  /\ [][/\ pc = "select" /\ pc' = "failed" =>
             program_cache = None /\ program_cache' = None
        /\ program_cache' # None /\ program_cache' # program_cache =>
             /\ pc = "select" /\ pc' = "preprocess"
             /\ program_cache = None
             /\ program_cache'.id = <<calls, 1>>
             /\ Precheck = None
             /\ constructions' # << >>
             /\ constructions'[Len(constructions')]
                  = Attempt(ClientOf(program_cache'), TRUE)]_vars

\* The construction of the program failed after an LLM client was made.
C38_Witness ==
  /\ SelectionFailed
  /\ constructions # << >>
  /\ constructions[Len(constructions)].ok
  /\ raised.cause = ConstructionError
  /\ program_cache = None

\* The capability is missing.
C38_CapabilityWitness ==
  SelectionFailed /\ ~STRUCTURED_PROGRAM_AVAILABLE /\ program_cache = None

\* The configuration is invalid.
C38_ConfigWitness ==
  /\ SelectionFailed /\ STRUCTURED_PROGRAM_AVAILABLE
  /\ ~OLLAMA_API_KEY /\ ~OPENAI_API_KEY /\ program_cache = None

\* No provider is usable.
C38_ProviderWitness ==
  /\ SelectionFailed /\ Precheck = None
  /\ constructions # << >> /\ ~constructions[Len(constructions)].ok
  /\ program_cache = None

\* A program constructed to the end is cached.
C38_CachedWitness ==
  program_cache = Program("openai", <<calls, 1>>) /\ pc = "preprocess"

\* The fields of a JobInfo that normalization has no statement for.
KeptFields ==
  {"company", "contact_person", "title", "location", "salary",
   "date_applied", "date_confirmation", "date_latest_reply", "status",
   "reason_outcome"}

\* C39: normalization changes nothing but level, remote_type, ats and url:
\* in every record extract_job_info returns, company, contact_person, title,
\* location, salary, the three dates, status and reason_outcome are the
\* values the extractor produced.
C39_NormalizationFrame ==
  pc = "done" =>
    /\ DOMAIN returned = DOMAIN extracted
    /\ \A f \in KeptFields : returned[f] = extracted[f]

\* A record returned with a field changed by normalization.
C39_Witness ==
  /\ pc = "done"
  /\ returned # extracted
  /\ \E f \in {"level", "remote_type", "ats", "url"} :
       returned[f] # extracted[f]

\* A record returned with optional fields set.
C39_OptionalWitness ==
  /\ pc = "done"
  /\ returned.status = Str(<<"n","e","w">>)
  /\ returned.contact_person = Str(<<"H","R">>)

\* A record returned with its company kept as a blank.
C39_BlankWitness == pc = "done" /\ returned.company = Str(<<" ">>)

=============================================================================
